---- MODULE Spec2Model ----
(***************************************************************************)
(* Provider resolution and credential lifecycle of picoclaw.               *)
(*                                                                         *)
(* Go strings that the code inspects byte by byte (model identifiers,      *)
(* provider names, protocol tags) are sequences of one-character strings.  *)
(* Strings the code only compares or copies (keys, proxies, auth-method    *)
(* tags) are TLA+ strings.  A base URL is the sequence of its segments     *)
(* between "/" (scheme and host form the first segment), so that a         *)
(* trailing "/" is a trailing empty segment; the empty URL is << >>.       *)
(***************************************************************************)
EXTENDS Integers, Sequences, FiniteSets, TLC

VARIABLES
    pin,        \* ExtractProtocol: the model string handed in
    pout,       \* ExtractProtocol: the pair returned, or NoParse
    cfg,        \* the configuration (config.Config)
    store,      \* the credential store: family key -> AuthCredential
    now,        \* the wall clock, in minutes
    res,        \* what the CreateProvider call just made returned, or NoRes
    env,        \* the surroundings: collaborators' outcomes, the OAuth account
    pc,         \* per process: where it is in the command it runs
    op,         \* per process: the locals of the command it runs
    report,     \* what the auth status just run printed: family -> status
    outcome,    \* the locals of the command that just finished
    deletedAll, \* history: every credential was deleted and no login followed
    chat,       \* HTTPProvider.Chat: the call, what it sent and returned
    migrated    \* ConvertProvidersToModelList: what it returned, or NoList

authVars == <<pc, op, report, outcome, deletedAll>>

callVars == <<chat, migrated>>

vars == <<pin, pout, cfg, store, now, res, env, pc, op, report, outcome,
          deletedAll, chat, migrated>>

----------------------------------------------------------------------------
(* Strings *)

StringLiterals ==
    ("openai" :> <<"o", "p", "e", "n", "a", "i">>) @@
    ("gpt" :> <<"g", "p", "t">>) @@
    ("anthropic" :> <<"a", "n", "t", "h", "r", "o", "p", "i", "c">>) @@
    ("claude" :> <<"c", "l", "a", "u", "d", "e">>) @@
    ("openrouter" :> <<"o", "p", "e", "n", "r", "o", "u", "t", "e", "r">>) @@
    ("groq" :> <<"g", "r", "o", "q">>) @@
    ("zhipu" :> <<"z", "h", "i", "p", "u">>) @@
    ("glm" :> <<"g", "l", "m">>) @@
    ("gemini" :> <<"g", "e", "m", "i", "n", "i">>) @@
    ("google" :> <<"g", "o", "o", "g", "l", "e">>) @@
    ("vllm" :> <<"v", "l", "l", "m">>) @@
    ("shengsuanyun" :> <<"s", "h", "e", "n", "g", "s", "u", "a", "n", "y", "u", "n">>) @@
    ("claude-cli" :> <<"c", "l", "a", "u", "d", "e", "-", "c", "l", "i">>) @@
    ("claudecode" :> <<"c", "l", "a", "u", "d", "e", "c", "o", "d", "e">>) @@
    ("claude-code" :> <<"c", "l", "a", "u", "d", "e", "-", "c", "o", "d", "e">>) @@
    ("claudecli" :> <<"c", "l", "a", "u", "d", "e", "c", "l", "i">>) @@
    ("codex-cli" :> <<"c", "o", "d", "e", "x", "-", "c", "l", "i">>) @@
    ("codex-code" :> <<"c", "o", "d", "e", "x", "-", "c", "o", "d", "e">>) @@
    ("codexcli" :> <<"c", "o", "d", "e", "x", "c", "l", "i">>) @@
    ("cerebras" :> <<"c", "e", "r", "e", "b", "r", "a", "s">>) @@
    ("deepseek" :> <<"d", "e", "e", "p", "s", "e", "e", "k">>) @@
    ("qwen" :> <<"q", "w", "e", "n">>) @@
    ("github_copilot" :> <<"g", "i", "t", "h", "u", "b", "_", "c", "o", "p", "i", "l", "o", "t">>) @@
    ("github-copilot" :> <<"g", "i", "t", "h", "u", "b", "-", "c", "o", "p", "i", "l", "o", "t">>) @@
    ("copilot" :> <<"c", "o", "p", "i", "l", "o", "t">>) @@
    ("antigravity" :> <<"a", "n", "t", "i", "g", "r", "a", "v", "i", "t", "y">>) @@
    ("google-antigravity" :> <<"g", "o", "o", "g", "l", "e", "-", "a", "n", "t", "i", "g", "r", "a", "v", "i", "t", "y">>) @@
    ("volcengine" :> <<"v", "o", "l", "c", "e", "n", "g", "i", "n", "e">>) @@
    ("doubao" :> <<"d", "o", "u", "b", "a", "o">>) @@
    ("nvidia" :> <<"n", "v", "i", "d", "i", "a">>) @@
    ("ollama" :> <<"o", "l", "l", "a", "m", "a">>) @@
    ("moonshot" :> <<"m", "o", "o", "n", "s", "h", "o", "t">>) @@
    ("kimi" :> <<"k", "i", "m", "i">>) @@
    ("zai" :> <<"z", "a", "i">>) @@
    ("moonshot/" :> <<"m", "o", "o", "n", "s", "h", "o", "t", "/">>) @@
    ("openrouter/" :> <<"o", "p", "e", "n", "r", "o", "u", "t", "e", "r", "/">>) @@
    ("anthropic/" :> <<"a", "n", "t", "h", "r", "o", "p", "i", "c", "/">>) @@
    ("openai/" :> <<"o", "p", "e", "n", "a", "i", "/">>) @@
    ("meta-llama/" :> <<"m", "e", "t", "a", "-", "l", "l", "a", "m", "a", "/">>) @@
    ("deepseek/" :> <<"d", "e", "e", "p", "s", "e", "e", "k", "/">>) @@
    ("google/" :> <<"g", "o", "o", "g", "l", "e", "/">>) @@
    ("groq/" :> <<"g", "r", "o", "q", "/">>) @@
    ("qwen/" :> <<"q", "w", "e", "n", "/">>) @@
    ("nvidia/" :> <<"n", "v", "i", "d", "i", "a", "/">>) @@
    ("cerebras/" :> <<"c", "e", "r", "e", "b", "r", "a", "s", "/">>) @@
    ("ollama/" :> <<"o", "l", "l", "a", "m", "a", "/">>) @@
    ("bedrock/" :> <<"b", "e", "d", "r", "o", "c", "k", "/">>) @@
    ("deepseek-chat" :> <<"d", "e", "e", "p", "s", "e", "e", "k", "-", "c", "h", "a", "t">>) @@
    ("deepseek-reasoner" :> <<"d", "e", "e", "p", "s", "e", "e", "k", "-", "r", "e", "a", "s", "o", "n", "e", "r">>) @@
    ("gemini-3-flash" :> <<"g", "e", "m", "i", "n", "i", "-", "3", "-", "f", "l", "a", "s", "h">>) @@
    ("anthropic/claude-3-sonnet" :> <<"a", "n", "t", "h", "r", "o", "p", "i", "c", "/", "c", "l", "a", "u", "d", "e", "-", "3", "-", "s", "o", "n", "n", "e", "t">>) @@
    ("claude-3-sonnet" :> <<"c", "l", "a", "u", "d", "e", "-", "3", "-", "s", "o", "n", "n", "e", "t">>) @@
    ("openai/gpt-4o" :> <<"o", "p", "e", "n", "a", "i", "/", "g", "p", "t", "-", "4", "o">>) @@
    ("gpt-4o" :> <<"g", "p", "t", "-", "4", "o">>) @@
    ("groq/openai/gpt-oss-120b" :> <<"g", "r", "o", "q", "/", "o", "p", "e", "n", "a", "i", "/", "g", "p", "t", "-", "o", "s", "s", "-", "1", "2", "0", "b">>) @@
    ("glm-4.7" :> <<"g", "l", "m", "-", "4", ".", "7">>) @@
    ("kimi-k2" :> <<"k", "i", "m", "i", "-", "k", "2">>) @@
    ("my-model" :> <<"m", "y", "-", "m", "o", "d", "e", "l">>) @@
    ("bedrock/titan" :> <<"b", "e", "d", "r", "o", "c", "k", "/", "t", "i", "t", "a", "n">>) @@
    ("fast" :> <<"f", "a", "s", "t">>) @@
    ("OpenAI" :> <<"O", "p", "e", "n", "A", "I">>) @@
    ("Claude" :> <<"C", "l", "a", "u", "d", "e">>) @@
    ("GLM" :> <<"G", "L", "M">>) @@
    ("claude-cli/x" :> <<"c", "l", "a", "u", "d", "e", "-", "c", "l", "i", "/", "x">>) @@
    ("copilot/gpt-4o" :> <<"c", "o", "p", "i", "l", "o", "t", "/", "g", "p", "t", "-", "4", "o">>) @@
    ("o1" :> <<"o", "1">>) @@
    ("k2" :> <<"k", "2">>) @@
    ("moonshot/kimi-k2.5" :> <<"m", "o", "o", "n", "s", "h", "o", "t", "/", "k", "i", "m", "i", "-", "k", "2", ".", "5">>) @@
    ("ollama/qwen2.5:14b" :> <<"o", "l", "l", "a", "m", "a", "/", "q", "w", "e", "n", "2", ".", "5", ":", "1", "4", "b">>) @@
    ("nvidia/glm-4.7" :> <<"n", "v", "i", "d", "i", "a", "/", "g", "l", "m", "-", "4", ".", "7">>) @@
    ("qwen/qwen/a" :> <<"q", "w", "e", "n", "/", "q", "w", "e", "n", "/", "a">>) @@
    ("cerebras/groq/a" :> <<"c", "e", "r", "e", "b", "r", "a", "s", "/", "g", "r", "o", "q", "/", "a">>) @@
    ("Groq/a" :> <<"G", "r", "o", "q", "/", "a">>) @@
    ("groqx/a" :> <<"g", "r", "o", "q", "x", "/", "a">>) @@
    ("/groq/a" :> <<"/", "g", "r", "o", "q", "/", "a">>) @@
    ("openai/o1" :> <<"o", "p", "e", "n", "a", "i", "/", "o", "1">>) @@
    ("openai/gpt-oss-120b" :> <<"o", "p", "e", "n", "a", "i", "/", "g", "p", "t", "-", "o", "s", "s", "-", "1", "2", "0", "b">>) @@
    ("openrouter/auto" :> <<"o", "p", "e", "n", "r", "o", "u", "t", "e", "r", "/", "a", "u", "t", "o">>) @@
    ("groq/llama-3.1-70b-versatile" :> <<"g", "r", "o", "q", "/", "l", "l", "a", "m", "a", "-", "3", ".", "1", "-", "7", "0", "b", "-", "v", "e", "r", "s", "a", "t", "i", "l", "e">>) @@
    ("openai/glm-4" :> <<"o", "p", "e", "n", "a", "i", "/", "g", "l", "m", "-", "4">>) @@
    ("openai/auto" :> <<"o", "p", "e", "n", "a", "i", "/", "a", "u", "t", "o">>) @@
    ("openai/gemini-pro" :> <<"o", "p", "e", "n", "a", "i", "/", "g", "e", "m", "i", "n", "i", "-", "p", "r", "o">>) @@
    ("nvidia/meta/llama-3.1-8b-instruct" :> <<"n", "v", "i", "d", "i", "a", "/", "m", "e", "t", "a", "/", "l", "l", "a", "m", "a", "-", "3", ".", "1", "-", "8", "b", "-", "i", "n", "s", "t", "r", "u", "c", "t">>) @@
    ("ollama/llama3" :> <<"o", "l", "l", "a", "m", "a", "/", "l", "l", "a", "m", "a", "3">>) @@
    ("moonshot/kimi" :> <<"m", "o", "o", "n", "s", "h", "o", "t", "/", "k", "i", "m", "i">>) @@
    ("openai/deepseek-chat" :> <<"o", "p", "e", "n", "a", "i", "/", "d", "e", "e", "p", "s", "e", "e", "k", "-", "c", "h", "a", "t">>) @@
    ("cerebras/llama-3.3-70b" :> <<"c", "e", "r", "e", "b", "r", "a", "s", "/", "l", "l", "a", "m", "a", "-", "3", ".", "3", "-", "7", "0", "b">>) @@
    ("openai/doubao-pro" :> <<"o", "p", "e", "n", "a", "i", "/", "d", "o", "u", "b", "a", "o", "-", "p", "r", "o">>) @@
    ("github-copilot/gpt-4o" :> <<"g", "i", "t", "h", "u", "b", "-", "c", "o", "p", "i", "l", "o", "t", "/", "g", "p", "t", "-", "4", "o">>) @@
    ("antigravity/gemini-2.0-flash" :> <<"a", "n", "t", "i", "g", "r", "a", "v", "i", "t", "y", "/", "g", "e", "m", "i", "n", "i", "-", "2", ".", "0", "-", "f", "l", "a", "s", "h">>) @@
    ("qwen/qwen-max" :> <<"q", "w", "e", "n", "/", "q", "w", "e", "n", "-", "m", "a", "x">>)
Lit(s) == StringLiterals[s]

Range(s) == {s[i] : i \in DOMAIN s}

WhiteSpace == {" ", "\t", "\n", "\r"}

RECURSIVE TrimLeftSpace(_)
TrimLeftSpace(s) ==
    IF s # <<>> /\ Head(s) \in WhiteSpace THEN TrimLeftSpace(Tail(s)) ELSE s

RECURSIVE TrimRightSpace(_)
TrimRightSpace(s) ==
    IF s # <<>> /\ s[Len(s)] \in WhiteSpace
    THEN TrimRightSpace(SubSeq(s, 1, Len(s) - 1))
    ELSE s

TrimSpace(s) == TrimRightSpace(TrimLeftSpace(s))

HasPrefix(s, p) == Len(p) <= Len(s) /\ SubSeq(s, 1, Len(p)) = p

Contains(s, sub) ==
    \E i \in 0..(Len(s) - Len(sub)) : SubSeq(s, i + 1, i + Len(sub)) = sub

UpperToLower ==
    ("A" :> "a") @@ ("C" :> "c") @@ ("G" :> "g") @@ ("I" :> "i") @@
    ("L" :> "l") @@ ("M" :> "m") @@ ("O" :> "o")

ToLower(s) ==
    [i \in DOMAIN s |->
        IF s[i] \in DOMAIN UpperToLower THEN UpperToLower[s[i]] ELSE s[i]]

\* The index of the first "/" of s, or 0 when there is none.
IndexSlash(s) ==
    IF "/" \in Range(s)
    THEN CHOOSE i \in DOMAIN s : s[i] = "/" /\ \A j \in 1..(i - 1) : s[j] # "/"
    ELSE 0

----------------------------------------------------------------------------
(* Protocol identifier parser *)

ExtractProtocol_NoTrim(model) ==
    LET i == IndexSlash(model)
    IN  IF i # 0
        THEN [protocol |-> SubSeq(model, 1, i - 1),
              modelID  |-> SubSeq(model, i + 1, Len(model))]
        ELSE [protocol |-> Lit("openai"), modelID |-> model]

ExtractProtocol(model) ==
    LET m == TrimSpace(model)
        i == IndexSlash(m)
    IN  IF i # 0
        THEN [protocol |-> SubSeq(m, 1, i - 1),
              modelID  |-> SubSeq(m, i + 1, Len(m))]
        ELSE [protocol |-> Lit("openai"), modelID |-> m]

----------------------------------------------------------------------------
(* Data model *)

\* The legacy per-family fields of config.ProvidersConfig, in the order in
\* which ConvertProvidersToModelList visits them.
Families ==
    <<"OpenAI", "Anthropic", "OpenRouter", "Groq", "Zhipu", "VLLM", "Gemini",
      "Nvidia", "Ollama", "Moonshot", "ShengSuanYun", "DeepSeek", "Cerebras",
      "VolcEngine", "GitHubCopilot", "Antigravity", "Qwen">>

FamilySet == Range(Families)

\* config.ProviderConfig with every field at its zero value.
EmptyProvider ==
    [APIKey |-> "", APIBase |-> <<>>, Proxy |-> "", AuthMethod |-> "",
     ConnectMode |-> ""]

\* What a constructor returns: one record shape for every adapter kind.
Adapter(kind, apiKey, apiBase, proxy, token, account, workspace, mode) ==
    [kind |-> kind, apiKey |-> apiKey, apiBase |-> apiBase, proxy |-> proxy,
     token |-> token, account |-> account, workspace |-> workspace,
     connectMode |-> mode]

NilProvider == Adapter("nil", "", <<>>, "", 0, "", "", "")

\* An error value: the format string and what is interpolated into it.
Err(text, arg) == [text |-> text, arg |-> arg, cause |-> ""]

\* fmt.Errorf("...: %w", err): the wrapped error's text is kept as cause.
Wrap(text, err) == [text |-> text, arg |-> err.arg, cause |-> err.text]

NoErr == Err("", <<>>)

\* (LLMProvider, string, error) and, as bookkeeping, the family whose fields
\* were used and the resolution step that matched.
Result(provider, modelID, err, family, step) ==
    [provider |-> provider, modelID |-> modelID, err |-> err,
     family |-> family, step |-> step]

NoRes == Result(NilProvider, <<>>, NoErr, "", "none")

NoParse == [protocol |-> <<"?">>, modelID |-> <<"?">>, none |-> TRUE]

NoList == <<[none |-> TRUE]>>

----------------------------------------------------------------------------
(* Adapter constructors *)

\* strings.TrimRight(apiBase, "/"): every trailing "/" is removed.
RECURSIVE TrimRightSlash(_)
TrimRightSlash(url) ==
    IF url # <<>> /\ url[Len(url)] = ""
    THEN TrimRightSlash(SubSeq(url, 1, Len(url) - 1))
    ELSE url

NewHTTPProvider_DropProxy(apiKey, apiBase, proxy) ==
    Adapter("http", apiKey, TrimRightSlash(apiBase), "", 0, "", "", "")

NewHTTPProvider(apiKey, apiBase, proxy) ==
    Adapter("http", apiKey, TrimRightSlash(apiBase), proxy, 0, "", "", "")

NewClaudeProvider(token) == Adapter("claude", token, <<>>, "", 0, "", "", "")

NewClaudeProviderWithTokenSource(token) ==
    Adapter("claude-oauth", "", <<>>, "", token, "", "", "")

NewCodexProviderWithTokenSource(token, account, source) ==
    Adapter(source, "", <<>>, "", token, account, "", "")

NewClaudeCliProvider(workspace) ==
    Adapter("claude-cli", "", <<>>, "", 0, "", workspace, "")

NewCodexCliProvider(workspace) ==
    Adapter("codex-cli", "", <<>>, "", 0, "", workspace, "")

NewAntigravityProvider == Adapter("antigravity", "", <<>>, "", 0, "", "", "")

\* The sidecar may be unreachable: e.copilotOk is the outcome.
NewGitHubCopilotProvider(e, apiBase, mode) ==
    IF e.copilotOk
    THEN [provider |-> Adapter("github-copilot", "", apiBase, "", 0, "", "", mode),
          err |-> NoErr]
    ELSE [provider |-> NilProvider, err |-> Err("copilot unavailable", <<>>)]

\* auth.GetCredential: (cred, err); cred is nil when the family has none.
GetCredential(st, e, family) ==
    IF ~e.storeOk THEN [err |-> TRUE, found |-> FALSE]
    ELSE IF family \in DOMAIN st
         THEN [err |-> FALSE, found |-> TRUE, cred |-> st[family]]
         ELSE [err |-> FALSE, found |-> FALSE]

createClaudeAuthProvider(st, e) ==
    LET g == GetCredential(st, e, "anthropic")
    IN  IF g.err
        THEN [provider |-> NilProvider,
              err |-> Err("loading auth credentials", <<>>)]
        ELSE IF ~g.found
        THEN [provider |-> NilProvider,
              err |-> Err("no credentials for anthropic. Run: picoclaw auth login --provider anthropic", <<>>)]
        ELSE [provider |-> NewClaudeProviderWithTokenSource(g.cred.AccessToken),
              err |-> NoErr]

createCodexAuthProvider(st, e) ==
    LET g == GetCredential(st, e, "openai")
    IN  IF g.err
        THEN [provider |-> NilProvider,
              err |-> Err("loading auth credentials", <<>>)]
        ELSE IF ~g.found
        THEN [provider |-> NilProvider,
              err |-> Err("no credentials for openai. Run: picoclaw auth login --provider openai", <<>>)]
        ELSE [provider |-> NewCodexProviderWithTokenSource(
                               g.cred.AccessToken, g.cred.AccountID, "codex-oauth"),
              err |-> NoErr]
----------------------------------------------------------------------------
(* Resolution from a route-table entry *)

HTTPProtocols ==
    {Lit("openai"), Lit("openrouter"), Lit("groq"), Lit("zhipu"),
     Lit("gemini"), Lit("nvidia"), Lit("ollama"), Lit("moonshot"),
     Lit("shengsuanyun"), Lit("deepseek"), Lit("cerebras"),
     Lit("volcengine"), Lit("vllm"), Lit("qwen")}

getDefaultAPIBase(protocol) ==
    CASE protocol = Lit("openai") -> <<"https://api.openai.com", "v1">>
      [] protocol = Lit("openrouter") -> <<"https://openrouter.ai", "api", "v1">>
      [] protocol = Lit("groq") -> <<"https://api.groq.com", "openai", "v1">>
      [] protocol = Lit("zhipu") -> <<"https://open.bigmodel.cn", "api", "paas", "v4">>
      [] protocol = Lit("gemini") ->
            <<"https://generativelanguage.googleapis.com", "v1beta">>
      [] protocol = Lit("nvidia") -> <<"https://integrate.api.nvidia.com", "v1">>
      [] protocol = Lit("ollama") -> <<"http://localhost:11434", "v1">>
      [] protocol = Lit("moonshot") -> <<"https://api.moonshot.cn", "v1">>
      [] protocol = Lit("shengsuanyun") ->
            <<"https://router.shengsuanyun.com", "api", "v1">>
      [] protocol = Lit("deepseek") -> <<"https://api.deepseek.com", "v1">>
      [] protocol = Lit("cerebras") -> <<"https://api.cerebras.ai", "v1">>
      [] protocol = Lit("volcengine") ->
            <<"https://ark.cn-beijing.volces.com", "api", "v3">>
      [] protocol = Lit("qwen") ->
            <<"https://dashscope.aliyuncs.com", "compatible-mode", "v1">>
      [] OTHER -> <<>>

AnthropicBase == <<"https://api.anthropic.com", "v1">>

\* The family key of a protocol tag of CreateProviderFromConfig.
ProtocolFamily(protocol) ==
    CASE protocol = Lit("openai") -> "OpenAI"
      [] protocol = Lit("openrouter") -> "OpenRouter"
      [] protocol = Lit("groq") -> "Groq"
      [] protocol = Lit("zhipu") -> "Zhipu"
      [] protocol = Lit("gemini") -> "Gemini"
      [] protocol = Lit("nvidia") -> "Nvidia"
      [] protocol = Lit("ollama") -> "Ollama"
      [] protocol = Lit("moonshot") -> "Moonshot"
      [] protocol = Lit("shengsuanyun") -> "ShengSuanYun"
      [] protocol = Lit("deepseek") -> "DeepSeek"
      [] protocol = Lit("cerebras") -> "Cerebras"
      [] protocol = Lit("volcengine") -> "VolcEngine"
      [] protocol = Lit("vllm") -> "VLLM"
      [] protocol = Lit("qwen") -> "Qwen"
      [] protocol = Lit("anthropic") -> "Anthropic"
      [] protocol = Lit("antigravity") -> "Antigravity"
      [] protocol \in {Lit("claude-cli"), Lit("claudecli")} -> "ClaudeCli"
      [] protocol \in {Lit("codex-cli"), Lit("codexcli")} -> "CodexCli"
      [] protocol \in {Lit("github-copilot"), Lit("copilot")} -> "GitHubCopilot"
      [] OTHER -> ""

\* The switch of CreateProviderFromConfig on the protocol; fam is the
\* family the protocol stands for.
ProtocolSwitch(mc, e, protocol, modelID, fam) ==
        CASE protocol \in HTTPProtocols ->
               IF mc.APIKey = "" /\ mc.APIBase = <<>>
               THEN Result(NilProvider, <<>>,
                      Err("api_key or api_base is required for HTTP-based protocol %q",
                          protocol), fam, "route")
               ELSE LET apiBase == IF mc.APIBase = <<>>
                                   THEN getDefaultAPIBase(protocol)
                                   ELSE mc.APIBase
                    IN  Result(NewHTTPProvider(mc.APIKey, apiBase, mc.Proxy),
                               modelID, NoErr, fam, "route")
          [] protocol = Lit("anthropic") ->
               IF mc.AuthMethod = "oauth" \/ mc.AuthMethod = "token"
               THEN Result(NewClaudeProvider(mc.APIKey), modelID, NoErr, fam, "route")
               ELSE LET apiBase == IF mc.APIBase = <<>> THEN AnthropicBase
                                   ELSE mc.APIBase
                    IN  Result(NewHTTPProvider(mc.APIKey, apiBase, mc.Proxy),
                               modelID, NoErr, fam, "route")
          [] protocol = Lit("antigravity") ->
               Result(NewAntigravityProvider, modelID, NoErr, fam, "route")
          [] protocol \in {Lit("claude-cli"), Lit("claudecli")} ->
               Result(NewClaudeCliProvider("."), modelID, NoErr, fam, "route")
          [] protocol \in {Lit("codex-cli"), Lit("codexcli")} ->
               Result(NewCodexCliProvider("."), modelID, NoErr, fam, "route")
          [] protocol \in {Lit("github-copilot"), Lit("copilot")} ->
               LET apiBase == IF mc.APIBase = <<>> THEN <<"localhost:4321">>
                              ELSE mc.APIBase
                   mode    == IF mc.ConnectMode = "" THEN "grpc" ELSE mc.ConnectMode
                   made    == NewGitHubCopilotProvider(e, apiBase, mode)
               IN  IF made.err # NoErr
                   THEN Result(NilProvider, <<>>, made.err, fam, "route")
                   ELSE Result(made.provider, modelID, NoErr, fam, "route")
          [] OTHER ->
               Result(NilProvider, <<>>,
                      Err("unknown protocol %q in model %q", protocol), "", "route")

FromProtocol(mc, e, ep) ==
    ProtocolSwitch(mc, e, ep.protocol, ep.modelID, ProtocolFamily(ep.protocol))

CreateProviderFromConfig(mc, e) ==
    IF mc.Model = <<>>
    THEN Result(NilProvider, <<>>, Err("model is required", <<>>), "", "route")
    ELSE FromProtocol(mc, e, ExtractProtocol(mc.Model))

\* Config.GetModelConfig: the index of the first entry whose logical name or
\* qualified model string is the requested model, or 0.
GetModelConfig(c, model) ==
    LET hits == {i \in DOMAIN c.ModelList :
                    \/ c.ModelList[i].ModelName = model
                    \/ c.ModelList[i].Model = model}
    IN  IF hits = {} THEN 0
        ELSE CHOOSE i \in hits : \A j \in hits : i <= j
----------------------------------------------------------------------------
(* Resolution from the legacy per-family fields *)

\* The state of CreateProvider's locals between its steps (ret = FALSE), or
\* the value of an early return (ret = TRUE).
Pending(apiKey, apiBase, proxy, model, family, step) ==
    [ret |-> FALSE, out |-> NoRes, apiKey |-> apiKey, apiBase |-> apiBase,
     proxy |-> proxy, model |-> model, family |-> family, step |-> step]

Return(out) ==
    [ret |-> TRUE, out |-> out, apiKey |-> "", apiBase |-> <<>>,
     proxy |-> "", model |-> <<>>, family |-> "", step |-> ""]

Unset(model) == Pending("", <<>>, "", model, "", "none")

\* Config.WorkspacePath
WorkspacePath(c) == c.Workspace

\* A case of the explicit-provider switch that reads key and base of one
\* family when its key is set; the proxy is not read.
ExplicitKeyed(c, family, default, model) ==
    LET p == c.Providers[family]
    IN  IF p.APIKey # ""
        THEN Pending(p.APIKey,
                     IF p.APIBase = <<>> THEN default ELSE p.APIBase,
                     "", model, family, "explicit")
        ELSE Unset(model)

\* The switch on the lower-cased provider name.  P is cfg.Providers and ws
\* the workspace the CLI adapters get.
ExplicitSwitch(c, st, e, providerName, model, P, ws) ==
        CASE providerName = Lit("groq") ->
               ExplicitKeyed(c, "Groq", <<"https://api.groq.com", "openai", "v1">>, model)
          [] providerName \in {Lit("openai"), Lit("gpt")} ->
               IF P.OpenAI.APIKey # "" \/ P.OpenAI.AuthMethod # ""
               THEN IF P.OpenAI.AuthMethod = "codex-cli"
                    THEN Return(Result(
                           NewCodexProviderWithTokenSource(0, "", "codex-cli-token"),
                           model, NoErr, "OpenAI", "explicit"))
                    ELSE IF P.OpenAI.AuthMethod \in {"oauth", "token"}
                    THEN LET made == createCodexAuthProvider(st, e)
                         IN  Return(Result(made.provider, model, made.err,
                                           "OpenAI", "explicit"))
                    ELSE Pending(P.OpenAI.APIKey,
                                 IF P.OpenAI.APIBase = <<>>
                                 THEN <<"https://api.openai.com", "v1">>
                                 ELSE P.OpenAI.APIBase,
                                 "", model, "OpenAI", "explicit")
               ELSE Unset(model)
          [] providerName \in {Lit("anthropic"), Lit("claude")} ->
               IF P.Anthropic.APIKey # "" \/ P.Anthropic.AuthMethod # ""
               THEN IF P.Anthropic.AuthMethod \in {"oauth", "token"}
                    THEN LET made == createClaudeAuthProvider(st, e)
                         IN  Return(Result(made.provider, model, made.err,
                                           "Anthropic", "explicit"))
                    ELSE Pending(P.Anthropic.APIKey,
                                 IF P.Anthropic.APIBase = <<>> THEN AnthropicBase
                                 ELSE P.Anthropic.APIBase,
                                 "", model, "Anthropic", "explicit")
               ELSE Unset(model)
          [] providerName = Lit("openrouter") ->
               ExplicitKeyed(c, "OpenRouter", <<"https://openrouter.ai", "api", "v1">>, model)
          [] providerName \in {Lit("zhipu"), Lit("glm")} ->
               ExplicitKeyed(c, "Zhipu",
                             <<"https://open.bigmodel.cn", "api", "paas", "v4">>, model)
          [] providerName \in {Lit("gemini"), Lit("google")} ->
               ExplicitKeyed(c, "Gemini",
                             <<"https://generativelanguage.googleapis.com", "v1beta">>,
                             model)
          [] providerName = Lit("vllm") ->
               IF P.VLLM.APIBase # <<>>
               THEN Pending(P.VLLM.APIKey, P.VLLM.APIBase, "", model, "VLLM", "explicit")
               ELSE Unset(model)
          [] providerName = Lit("shengsuanyun") ->
               ExplicitKeyed(c, "ShengSuanYun",
                             <<"https://router.shengsuanyun.com", "api", "v1">>, model)
          [] providerName \in {Lit("claude-cli"), Lit("claudecode"), Lit("claude-code")} ->
               Return(Result(NewClaudeCliProvider(ws), model, NoErr,
                             "ClaudeCli", "explicit"))
          [] providerName \in {Lit("codex-cli"), Lit("codex-code")} ->
               Return(Result(NewCodexCliProvider(ws), model, NoErr,
                             "CodexCli", "explicit"))
          [] providerName = Lit("cerebras") ->
               ExplicitKeyed(c, "Cerebras", <<"https://api.cerebras.ai", "v1">>, model)
          [] providerName = Lit("deepseek") ->
               ExplicitKeyed(c, "DeepSeek", <<"https://api.deepseek.com", "v1">>,
                   IF /\ P.DeepSeek.APIKey # ""
                      /\ model # Lit("deepseek-chat")
                      /\ model # Lit("deepseek-reasoner")
                   THEN Lit("deepseek-chat") ELSE model)
          [] providerName = Lit("qwen") ->
               ExplicitKeyed(c, "Qwen",
                   <<"https://dashscope.aliyuncs.com", "compatible-mode", "v1">>, model)
          [] providerName \in {Lit("github_copilot"), Lit("copilot")} ->
               LET apiBase == IF P.GitHubCopilot.APIBase # <<>>
                              THEN P.GitHubCopilot.APIBase
                              ELSE <<"localhost:4321">>
                   made == NewGitHubCopilotProvider(e, apiBase,
                                                    P.GitHubCopilot.ConnectMode)
               IN  Return(Result(made.provider, model, made.err,
                                 "GitHubCopilot", "explicit"))
          [] providerName \in {Lit("antigravity"), Lit("google-antigravity")} ->
               Return(Result(NewAntigravityProvider, model, NoErr,
                             "Antigravity", "explicit"))
          [] providerName \in {Lit("volcengine"), Lit("doubao")} ->
               ExplicitKeyed(c, "VolcEngine",
                             <<"https://ark.cn-beijing.volces.com", "api", "v3">>, model)
          [] OTHER -> Unset(model)

\* CreateProvider from "if providerName != \"\"" to the end of its switch.
ExplicitProvider(c, st, e) ==
    ExplicitSwitch(c, st, e, ToLower(c.Provider), c.Model, c.Providers,
                   IF WorkspacePath(c) = "" THEN "." ELSE WorkspacePath(c))
\* One case of the model-name switch: its condition, the family whose fields
\* it reads, the default base URL, and how it builds ("http", or the stored
\* credential of "claude" / "codex" when the auth-method asks for it).
HeuristicCase(cond, family, default, build) ==
    [cond |-> cond, family |-> family, default |-> default, build |-> build]

HeuristicCases(c, model, lowerModel) ==
    LET P == c.Providers
        has(s) == Contains(lowerModel, Lit(s))
        pre(s) == HasPrefix(model, Lit(s))
    IN  << HeuristicCase(
             (has("kimi") \/ has("moonshot") \/ pre("moonshot/"))
                 /\ P.Moonshot.APIKey # "",
             "Moonshot", <<"https://api.moonshot.cn", "v1">>, "http"),
           HeuristicCase(
             pre("openrouter/") \/ pre("anthropic/") \/ pre("openai/")
                 \/ pre("meta-llama/") \/ pre("deepseek/") \/ pre("google/"),
             "OpenRouter", <<"https://openrouter.ai", "api", "v1">>, "http"),
           HeuristicCase(
             (has("claude") \/ pre("anthropic/"))
                 /\ (P.Anthropic.APIKey # "" \/ P.Anthropic.AuthMethod # ""),
             "Anthropic", AnthropicBase, "claude"),
           HeuristicCase(
             (has("gpt") \/ pre("openai/"))
                 /\ (P.OpenAI.APIKey # "" \/ P.OpenAI.AuthMethod # ""),
             "OpenAI", <<"https://api.openai.com", "v1">>, "codex"),
           HeuristicCase(
             (has("gemini") \/ pre("google/")) /\ P.Gemini.APIKey # "",
             "Gemini", <<"https://generativelanguage.googleapis.com", "v1beta">>,
             "http"),
           HeuristicCase(
             (has("glm") \/ has("zhipu") \/ has("zai")) /\ P.Zhipu.APIKey # "",
             "Zhipu", <<"https://open.bigmodel.cn", "api", "paas", "v4">>, "http"),
           HeuristicCase(
             (has("groq") \/ pre("groq/")) /\ P.Groq.APIKey # "",
             "Groq", <<"https://api.groq.com", "openai", "v1">>, "http"),
           HeuristicCase(
             (has("qwen") \/ pre("qwen/")) /\ P.Qwen.APIKey # "",
             "Qwen", <<"https://dashscope.aliyuncs.com", "compatible-mode", "v1">>,
             "http"),
           HeuristicCase(
             (has("nvidia") \/ pre("nvidia/")) /\ P.Nvidia.APIKey # "",
             "Nvidia", <<"https://integrate.api.nvidia.com", "v1">>, "http"),
           HeuristicCase(
             (has("cerebras") \/ pre("cerebras/")) /\ P.Cerebras.APIKey # "",
             "Cerebras", <<"https://api.cerebras.ai", "v1">>, "http"),
           HeuristicCase(
             (has("ollama") \/ pre("ollama/")) /\ P.Ollama.APIKey # "",
             "Ollama", <<"http://localhost:11434", "v1">>, "http"),
           HeuristicCase(
             (has("doubao") \/ HasPrefix(lowerModel, Lit("doubao"))
                 \/ has("volcengine")) /\ P.VolcEngine.APIKey # "",
             "VolcEngine", <<"https://ark.cn-beijing.volces.com", "api", "v3">>,
             "http"),
           HeuristicCase(P.VLLM.APIBase # <<>>, "VLLM", <<>>, "http") >>

\* The step a case of the model-name switch counts as.
HeuristicStep(i) == IF i = 13 THEN "vllm" ELSE "heuristic"

\* The first case whose condition holds, or 0.
FirstCase(cases) ==
    IF \A i \in DOMAIN cases : ~cases[i].cond THEN 0
    ELSE CHOOSE k \in DOMAIN cases :
            cases[k].cond /\ \A j \in DOMAIN cases : cases[j].cond => k <= j

\* The body of the case hc, whose family has the fields p.
HeuristicBody(st, e, model, hc, p, step) ==
    IF hc.build = "claude" /\ p.AuthMethod \in {"oauth", "token"}
    THEN Return(Result(createClaudeAuthProvider(st, e).provider, model,
                       createClaudeAuthProvider(st, e).err, hc.family, step))
    ELSE IF hc.build = "codex" /\ p.AuthMethod \in {"oauth", "token"}
    THEN Return(Result(createCodexAuthProvider(st, e).provider, model,
                       createCodexAuthProvider(st, e).err, hc.family, step))
    ELSE Pending(p.APIKey, IF p.APIBase = <<>> THEN hc.default ELSE p.APIBase,
                 p.Proxy, model, hc.family, step)

\* The default case: OpenRouter when it has a key, else the error.
HeuristicDefault(P, model) ==
    IF P.OpenRouter.APIKey # ""
    THEN Pending(P.OpenRouter.APIKey,
                 IF P.OpenRouter.APIBase # <<>> THEN P.OpenRouter.APIBase
                 ELSE <<"https://openrouter.ai", "api", "v1">>,
                 P.OpenRouter.Proxy, model, "OpenRouter", "fallback")
    ELSE Return(Result(NilProvider, <<>>,
                       Err("no API key configured for model: %s", model),
                       "", "fallback"))

HeuristicSwitch(c, st, e, model, cases, i) ==
    IF i # 0
    THEN HeuristicBody(st, e, model, cases[i], c.Providers[cases[i].family],
                       HeuristicStep(i))
    ELSE HeuristicDefault(c.Providers, model)

HeuristicTaken(c, st, e, model, cases) ==
    HeuristicSwitch(c, st, e, model, cases, FirstCase(cases))

\* The switch of CreateProvider that runs when the explicit provider has
\* set neither key nor base: the first case whose condition holds, or the
\* default case.
HeuristicProvider(c, st, e, model, lowerModel) ==
    HeuristicTaken(c, st, e, model, HeuristicCases(c, model, lowerModel))

\* The end of CreateProvider: a key is needed unless the model is a bedrock
\* one, and a base URL is needed; then the HTTP adapter is built.
FinalChecks(h) ==
    IF h.ret THEN h.out
    ELSE IF h.apiKey = "" /\ ~HasPrefix(h.model, Lit("bedrock/"))
    THEN Result(NilProvider, <<>>,
                Err("no API key configured for provider (model: %s)", h.model),
                h.family, h.step)
    ELSE IF h.apiBase = <<>>
    THEN Result(NilProvider, <<>>,
                Err("no API base configured for provider (model: %s)", h.model),
                h.family, h.step)
    ELSE Result(NewHTTPProvider(h.apiKey, h.apiBase, h.proxy), h.model,
                NoErr, h.family, h.step)

\* What follows the explicit-provider switch that left ex.
AfterExplicit(c, st, e, ex) ==
    IF ex.ret THEN ex.out
    ELSE IF ex.apiKey = "" /\ ex.apiBase = <<>>
    THEN FinalChecks(HeuristicProvider(c, st, e, ex.model, ToLower(c.Model)))
    ELSE FinalChecks(ex)

\* CreateProvider after the route table had no entry for the model.
LegacyProvider(c, st, e) == AfterExplicit(c, st, e, ExplicitProvider(c, st, e))

\* The index of the route the requested model has, or 0.
RouteIndex(c) == IF Len(c.ModelList) > 0 THEN GetModelConfig(c, c.Model) ELSE 0

\* The result of the route table's factory, as CreateProvider returns it.
RouteResult(r) ==
    IF r.err # NoErr
    THEN Result(NilProvider, <<>>,
                Wrap("failed to create provider from model_list", r.err),
                r.family, "route")
    ELSE r

LegacyFirst(r, legacy) == IF legacy.err = NoErr THEN legacy ELSE r

CreateProvider_LegacyFirst(c, st, e) ==
    IF RouteIndex(c) = 0 THEN LegacyProvider(c, st, e)
    ELSE LegacyFirst(CreateProviderFromConfig(c.ModelList[RouteIndex(c)], e),
                     LegacyProvider(c, st, e))

FallThrough(c, st, e, r) == IF r.err = NoErr THEN r ELSE LegacyProvider(c, st, e)

CreateProvider_FallThrough(c, st, e) ==
    IF RouteIndex(c) = 0 THEN LegacyProvider(c, st, e)
    ELSE FallThrough(c, st, e,
                     CreateProviderFromConfig(c.ModelList[RouteIndex(c)], e))

CreateProvider(c, st, e) ==
    IF RouteIndex(c) # 0
    THEN RouteResult(CreateProviderFromConfig(c.ModelList[RouteIndex(c)], e))
    ELSE LegacyProvider(c, st, e)
----------------------------------------------------------------------------
(* HTTP adapter: one chat completion *)

StatusOK == 200

\* The family prefixes the wire does not expect.
StrippedPrefixes ==
    {Lit("moonshot"), Lit("nvidia"), Lit("groq"), Lit("ollama"), Lit("qwen"),
     Lit("cerebras")}

StripPrefix_LastSegment(model) ==
    LET idx == IndexSlash(model)
    IN  IF idx # 0 /\ SubSeq(model, 1, idx - 1) \in StrippedPrefixes
        THEN ExtractProtocol_NoTrim(SubSeq(model, idx + 1, Len(model))).modelID
        ELSE model

\* The model name Chat puts on the wire.
StripPrefix(model) ==
    LET idx == IndexSlash(model)
    IN  IF idx # 0 /\ SubSeq(model, 1, idx - 1) \in StrippedPrefixes
        THEN SubSeq(model, idx + 1, Len(model))
        ELSE model

\* The options map: 0 and "" stand for a key that is absent.
Options(maxTokens, temperature) ==
    [max_tokens |-> maxTokens, temperature |-> temperature]

\* The request Chat posts: its URL, its Authorization header and the JSON
\* object of its body, an absent key being 0 or "".
RequestBody(p, model, messages, tools, options, lowerModel) ==
    [url |-> p.apiBase \o <<"chat", "completions">>,
     authorization |-> p.apiKey,
     model |-> model,
     messages |-> messages,
     tools |-> tools,
     tool_choice |-> IF tools > 0 THEN "auto" ELSE "",
     max_completion_tokens |->
        IF Contains(lowerModel, Lit("glm")) \/ Contains(lowerModel, Lit("o1"))
        THEN options.max_tokens ELSE 0,
     max_tokens |->
        IF Contains(lowerModel, Lit("glm")) \/ Contains(lowerModel, Lit("o1"))
        THEN 0 ELSE options.max_tokens,
     temperature |->
        IF options.temperature = "" THEN ""
        ELSE IF Contains(lowerModel, Lit("kimi")) /\ Contains(lowerModel, Lit("k2"))
             THEN "1.0" ELSE options.temperature]

NoRequest ==
    RequestBody(NilProvider, <<>>, 0, 0, Options(0, ""), <<>>)

\* A Go map[string]interface{} is the function from its keys.
EmptyArgs == [k \in {} |-> ""]

\* The JSON objects among the argument strings, and what they decode to.
JSONObjects ==
    ("{}" :> EmptyArgs) @@
    ("{\"q\":\"go\"}" :> ("q" :> "go"))

\* json.Unmarshal([]byte(s), &arguments) on an empty map: an object fills
\* the map, null makes it nil, and anything else is an error that leaves
\* the map as it was.
Unmarshal(s) ==
    IF s \in DOMAIN JSONObjects THEN [err |-> FALSE, value |-> JSONObjects[s]]
    ELSE IF s = "null" THEN [err |-> FALSE, value |-> EmptyArgs]
    ELSE [err |-> TRUE, value |-> EmptyArgs]

DecodeArguments_DropRaw(argsStr) ==
    IF argsStr = "" THEN EmptyArgs ELSE Unmarshal(argsStr).value

\* The arguments map of one normalized tool call.
DecodeArguments(argsStr) ==
    IF argsStr = "" THEN EmptyArgs
    ELSE IF Unmarshal(argsStr).err THEN "raw" :> argsStr
    ELSE Unmarshal(argsStr).value

\* The function object of a wire tool call, nil when the wire had none.
Function(name, arguments, thoughtSignature) ==
    [nil |-> FALSE, Name |-> name, Arguments |-> arguments,
     ThoughtSignature |-> thoughtSignature]

NilFunction == [Function("", "", "") EXCEPT !.nil = TRUE]

WireToolCall(id, type, function) ==
    [ID |-> id, Type |-> type, Function |-> function]

\* One round of the loop over choice.Message.ToolCalls.
ToolCall(tc) ==
    [ID |-> tc.ID, Type |-> tc.Type,
     Function |-> Function(tc.Function.Name, tc.Function.Arguments,
                           tc.Function.ThoughtSignature),
     Name |-> tc.Function.Name,
     Arguments |-> DecodeArguments(tc.Function.Arguments)]

Choice(content, toolCalls, finishReason) ==
    [content |-> content, tool_calls |-> toolCalls,
     finish_reason |-> finishReason]

\* A response body: bytes that are the JSON envelope, or bytes that are not.
Body(valid, choices, usage) ==
    [valid |-> valid, choices |-> choices, usage |-> usage]

LLMResponse(content, toolCalls, finishReason, usage) ==
    [nil |-> FALSE, Content |-> content, ToolCalls |-> toolCalls,
     FinishReason |-> finishReason, Usage |-> usage]

NilResponse == [LLMResponse("", <<>>, "", 0) EXCEPT !.nil = TRUE]

parseResponse_EmptyFails(body) ==
    IF ~body.valid \/ Len(body.choices) = 0
    THEN [resp |-> NilResponse,
          err |-> Err("failed to unmarshal response: %w", <<>>)]
    ELSE [resp |-> LLMResponse(body.choices[1].content,
                               [i \in DOMAIN body.choices[1].tool_calls |->
                                    ToolCall(body.choices[1].tool_calls[i])],
                               body.choices[1].finish_reason, body.usage),
          err |-> NoErr]

parseResponse(body) ==
    IF ~body.valid
    THEN [resp |-> NilResponse,
          err |-> Err("failed to unmarshal response: %w", <<>>)]
    ELSE IF Len(body.choices) = 0
    THEN [resp |-> LLMResponse("", <<>>, "stop", 0), err |-> NoErr]
    ELSE [resp |-> LLMResponse(body.choices[1].content,
                               [i \in DOMAIN body.choices[1].tool_calls |->
                                    ToolCall(body.choices[1].tool_calls[i])],
                               body.choices[1].finish_reason, body.usage),
          err |-> NoErr]

\* What the transport hands back: a status and a body, or a failure.
Reply(status, body) == [failed |-> FALSE, status |-> status, body |-> body]

NetworkFailure == [Reply(0, Body(FALSE, <<>>, 0)) EXCEPT !.failed = TRUE]

\* A Chat call: its receiver and arguments, what the server will answer,
\* and, once made, the request sent, the pair returned and whether the
\* body was handed to parseResponse.
ChatCall(p, model, messages, tools, options, reply) ==
    [made |-> FALSE, provider |-> p, model |-> model, messages |-> messages,
     tools |-> tools, options |-> options, reply |-> reply,
     sent |-> NoRequest, resp |-> NilResponse, err |-> NoErr,
     parsed |-> FALSE]

NoChat == ChatCall(NilProvider, <<>>, 0, 0, Options(0, ""), NetworkFailure)

Handed(c, r) == [c EXCEPT !.resp = r.resp, !.err = r.err, !.parsed = TRUE]

Receive_AnyStatus(c, reply) ==
    IF reply.failed
    THEN [c EXCEPT !.err = Err("failed to send request: %w", <<>>)]
    ELSE Handed(c, parseResponse(reply.body))

\* Chat from httpClient.Do on.
Receive(c, reply) ==
    IF reply.failed
    THEN [c EXCEPT !.err = Err("failed to send request: %w", <<>>)]
    ELSE IF reply.status # StatusOK
    THEN [c EXCEPT !.err = Err("API request failed:\n  Status: %d\n  Body:   %s",
                               <<reply.status, reply.body>>)]
    ELSE Handed(c, parseResponse(reply.body))

\* Chat from the request body on, model being the stripped name.
Send(c, model) ==
    Receive([c EXCEPT !.sent = RequestBody(c.provider, model, c.messages,
                                           c.tools, c.options, ToLower(model))],
            c.reply)

Chat(c) ==
    IF c.provider.apiBase = <<>>
    THEN [c EXCEPT !.made = TRUE, !.err = Err("API base not configured", <<>>)]
    ELSE Send([c EXCEPT !.made = TRUE], StripPrefix(c.model))

----------------------------------------------------------------------------
(* Inputs *)

MaxLen == 4

ParseAlphabet == {"a", "b", "/", " "}

\* Every string over the alphabet of length at most n.
RECURSIVE StringsUpTo(_)
StringsUpTo(n) ==
    IF n = 0 THEN {<<>>}
    ELSE LET shorter == StringsUpTo(n - 1)
         IN  shorter \cup {Append(s, ch) : s \in shorter, ch \in ParseAlphabet}

Endpoint(key, base, proxy, auth, mode) ==
    [APIKey |-> key, APIBase |-> base, Proxy |-> proxy, AuthMethod |-> auth,
     ConnectMode |-> mode]

CustomBase == <<"https://custom.api.com", "v1", "">>

\* A config.ModelConfig.
Route(name, model, ep) ==
    [ModelName |-> name, Model |-> model, APIKey |-> ep.APIKey,
     APIBase |-> ep.APIBase, Proxy |-> ep.Proxy, AuthMethod |-> ep.AuthMethod,
     ConnectMode |-> ep.ConnectMode]

\* ProvidersConfig with the families of S populated and the others empty.
Providers(S) ==
    [f \in FamilySet |-> IF f \in DOMAIN S THEN S[f] ELSE EmptyProvider]

Config(provider, model, list, providers) ==
    [Provider |-> provider, Model |-> model, Workspace |-> "",
     ModelList |-> list, Providers |-> providers]

\* An auth.AuthCredential.  Tokens are numbers, 0 standing for the empty
\* string; ExpiresAt = 0 is the zero time.
Credential(provider, access, refresh, expires, account, email, project, method) ==
    [Provider |-> provider, AccessToken |-> access, RefreshToken |-> refresh,
     ExpiresAt |-> expires, AccountID |-> account, Email |-> email,
     ProjectID |-> project, AuthMethod |-> method]

EmptyStore == [f \in {} |-> 0]

FullStore ==
    ("anthropic" :> Credential("anthropic", 1, 0, 0, "", "", "", "token")) @@
    ("openai" :> Credential("openai", 2, 3, 0, "acct", "", "", "oauth"))

AllOk == [copilotOk |-> TRUE, storeOk |-> TRUE, configOk |-> TRUE,
          oauth |-> "openai"]

RouteEndpoints ==
    { Endpoint("", <<>>, "", "", ""),
      Endpoint("rk", <<>>, "", "", ""),
      Endpoint("", CustomBase, "rproxy", "", ""),
      Endpoint("rk", <<>>, "", "oauth", "") }

RouteTargets ==
    { <<Lit("anthropic/claude-3-sonnet"), Lit("anthropic/claude-3-sonnet")>>,
      <<Lit("fast"), Lit("groq/openai/gpt-oss-120b")>>,
      <<Lit("gpt-4o"), Lit("openai/gpt-4o")>>,
      <<Lit("my-model"), Lit("bedrock/titan")>>,
      <<Lit("claude"), Lit("claude-cli/x")>>,
      <<Lit("copilot"), Lit("copilot/gpt-4o")>>,
      <<Lit("kimi-k2"), Lit("gpt-4o")>> }

Routes == {Route(rt[1], rt[2], ep) : rt \in RouteTargets, ep \in RouteEndpoints}

RouteLists ==
    {<<r>> : r \in Routes} \cup
    {<<r1, r2>> : r1 \in {Route(Lit("gpt-4o"), Lit("groq/openai/gpt-oss-120b"), ep) :
                            ep \in RouteEndpoints},
                  r2 \in {Route(Lit("fast"), Lit("openai/gpt-4o"), ep) :
                            ep \in RouteEndpoints}}

RouteRequested ==
    {Lit("anthropic/claude-3-sonnet"), Lit("fast"), Lit("gpt-4o"),
     Lit("my-model"), Lit("openai/gpt-4o"), Lit("claude"), Lit("copilot"),
     Lit("kimi-k2")}

RouteLegacy ==
    { Providers(EmptyStore),
      Providers("OpenAI" :> Endpoint("ok", <<>>, "", "", "")),
      Providers(("Anthropic" :> Endpoint("ak", <<>>, "aproxy", "", "")) @@
                ("OpenRouter" :> Endpoint("ork", <<>>, "", "", ""))),
      Providers(("Moonshot" :> Endpoint("mk", <<>>, "", "", "")) @@
                ("Groq" :> Endpoint("gk", <<>>, "", "", ""))),
      Providers("Anthropic" :> Endpoint("", <<>>, "", "oauth", "")) }

ProviderNames ==
    {<<>>, Lit("OpenAI"), Lit("gpt"), Lit("Claude"), Lit("anthropic"),
     Lit("GLM"), Lit("doubao"), Lit("groq"), Lit("vllm"), Lit("deepseek"),
     Lit("copilot"), Lit("antigravity"), Lit("claude-cli"), Lit("openrouter")}

Models ==
    {Lit("anthropic/claude-3-sonnet"), Lit("claude-3-sonnet"), Lit("gpt-4o"),
     Lit("groq/openai/gpt-oss-120b"), Lit("glm-4.7"), Lit("kimi-k2"),
     Lit("my-model"), Lit("bedrock/titan")}

FamilyEndpoints ==
    { Endpoint("k", <<>>, "", "", ""),
      Endpoint("", CustomBase, "proxy", "", ""),
      Endpoint("k", CustomBase, "proxy", "", "") }

LegacyProfiles ==
    {Providers(EmptyStore)} \cup
    {Providers(f :> ep) : f \in FamilySet, ep \in FamilyEndpoints} \cup
    {Providers(f :> Endpoint(k, <<>>, "", m, "")) :
        f \in {"OpenAI", "Anthropic"}, k \in {"", "k"},
        m \in {"oauth", "token", "codex-cli"}} \cup
    {Providers((f :> Endpoint("k", <<>>, "", "", "")) @@
               ("OpenRouter" :> Endpoint("ork", <<>>, "orproxy", "", ""))) :
        f \in FamilySet \ {"OpenRouter"}} \cup
    {Providers(("VLLM" :> ep) @@
               ("OpenRouter" :> Endpoint("ork", <<>>, "orproxy", "", ""))) :
        ep \in FamilyEndpoints}

Environments ==
    { <<EmptyStore, AllOk>>, <<FullStore, AllOk>>,
      <<FullStore, [AllOk EXCEPT !.storeOk = FALSE]>>,
      <<EmptyStore, [AllOk EXCEPT !.copilotOk = FALSE]>> }

----------------------------------------------------------------------------
(* Processes that run auth commands *)

Procs == {"p1", "p2"}

StoreKeys == {"openai", "anthropic", "google-antigravity"}

NoCredential == Credential("", 0, 0, 0, "", "", "", "")

\* The locals of a command: the family it works on, its cred variable,
\* what it loaded, what the exchange returned and whether that answer
\* omitted the refresh token, whether the exchange failed, the error it
\* reports, and the access token it finally used.
Locals(kind, family, cred) ==
    [kind |-> kind, family |-> family, cred |-> cred, loaded |-> cred,
     refreshed |-> NoCredential, omitted |-> FALSE, refreshErr |-> FALSE,
     err |-> "", used |-> 0]

NoLocals == Locals("none", "", NoCredential)

NoReport == [f \in {} |-> ""]

AuthIdle ==
    /\ pc = [p \in Procs |-> "idle"]
    /\ op = [p \in Procs |-> NoLocals]
    /\ report = NoReport
    /\ outcome = NoLocals
    /\ deletedAll = FALSE

\* No Chat call and no migration has been made.
NoCalls ==
    /\ chat = NoChat
    /\ migrated = NoList

----------------------------------------------------------------------------
(* Specification of the parser: one call on any short string *)

InitParse ==
    /\ pin \in StringsUpTo(MaxLen)
    /\ pout = NoParse
    /\ cfg = Config(<<>>, <<>>, <<>>, Providers(EmptyStore))
    /\ store = EmptyStore
    /\ now = 1
    /\ res = NoRes
    /\ env = AllOk
    /\ AuthIdle
    /\ NoCalls

Parse ==
    /\ pout = NoParse
    /\ pout' = ExtractProtocol(pin)
    /\ UNCHANGED <<callVars, pin, cfg, store, now, res, env, authVars>>

NextParse == Parse

SpecParse == InitParse /\ [][NextParse]_vars

----------------------------------------------------------------------------
(* Specification of one resolution on any of the enumerated inputs *)

InitResolve ==
    /\ pin = <<>>
    /\ pout = NoParse
    /\ now = 1
    /\ res = NoRes
    /\ AuthIdle
    /\ NoCalls
    /\ \E se \in Environments : store = se[1] /\ env = se[2]
    /\ \/ \E list \in RouteLists, m \in RouteRequested, lp \in RouteLegacy,
            pn \in {<<>>, Lit("OpenAI"), Lit("groq")} :
              cfg = Config(pn, m, list, lp)
       \/ \E list \in {<<>>, <<Route(Lit("fast"), Lit("openai/gpt-4o"),
                                     Endpoint("rk", <<>>, "", "", ""))>>},
            m \in Models, lp \in LegacyProfiles, pn \in ProviderNames :
              cfg = Config(pn, m, list, lp)

Resolve ==
    /\ res = NoRes
    /\ res' = CreateProvider(cfg, store, env)
    /\ UNCHANGED <<callVars, pin, pout, cfg, store, now, env, authVars>>

NextResolve == Resolve

SpecResolve == InitResolve /\ [][NextResolve]_vars
----------------------------------------------------------------------------
(* Claims about one resolution (SpecResolve) *)

\* The route-table entry CreateProvider looks at, and what each surface
\* alone makes of the requested model.
MatchedRoute == GetModelConfig(cfg, cfg.Model)

RouteAlone == CreateProviderFromConfig(cfg.ModelList[MatchedRoute], env)

LegacyAlone == LegacyProvider(cfg, store, env)

Resolved == res # NoRes

\* C1: when a route-table entry and the legacy fields would each resolve
\* the requested model, to different families, CreateProvider returns the
\* adapter of the route-table family.
C1_RouteTablePrecedence ==
    (/\ Resolved
     /\ MatchedRoute # 0
     /\ RouteAlone.err = NoErr
     /\ LegacyAlone.err = NoErr
     /\ RouteAlone.family # LegacyAlone.family)
    => /\ res.err = NoErr
       /\ res.family = RouteAlone.family
       /\ res.provider = RouteAlone.provider
       /\ res.step = "route"

C1_Witness ==
    /\ Resolved
    /\ MatchedRoute # 0
    /\ RouteAlone.err = NoErr
    /\ LegacyAlone.err = NoErr
    /\ RouteAlone.family = "Groq"
    /\ LegacyAlone.family = "OpenAI"
    /\ res.family = "Groq"

\* C2: a matching route-table entry of an HTTP-compatible family with
\* neither key nor base URL makes resolution fail; no later step (explicit
\* provider, model-name switch, fallback) is tried, whatever the legacy
\* fields contain.
C2_EmptyRouteFailsWithoutFallThrough ==
    (/\ Resolved
     /\ MatchedRoute # 0
     /\ ExtractProtocol(cfg.ModelList[MatchedRoute].Model).protocol \in HTTPProtocols
     /\ cfg.ModelList[MatchedRoute].APIKey = ""
     /\ cfg.ModelList[MatchedRoute].APIBase = <<>>)
    => /\ res.err # NoErr
       /\ res.provider = NilProvider
       /\ res.step = "route"

C2_Witness ==
    /\ Resolved
    /\ MatchedRoute # 0
    /\ ExtractProtocol(cfg.ModelList[MatchedRoute].Model).protocol = Lit("groq")
    /\ cfg.ModelList[MatchedRoute].APIKey = ""
    /\ cfg.ModelList[MatchedRoute].APIBase = <<>>
    /\ LegacyAlone.err = NoErr
    /\ LegacyAlone.provider.kind = "http"
    /\ res.err # NoErr

\* No API key anywhere in the configuration, and no Anthropic auth-method.
NoKeyAndNoAnthropicAuth ==
    /\ \A f \in FamilySet : cfg.Providers[f].APIKey = ""
    /\ cfg.Providers.Anthropic.AuthMethod = ""
    /\ \A i \in DOMAIN cfg.ModelList :
          cfg.ModelList[i].APIKey = "" /\ cfg.ModelList[i].AuthMethod = ""

\* C3: for model "anthropic/claude-3-sonnet", with no Anthropic auth
\* configured and no API key (and no explicit provider named), resolution
\* fails with an error naming anthropic and returns no adapter.
C3_AnthropicWithoutCredentialFails ==
    (/\ Resolved
     /\ cfg.Model = Lit("anthropic/claude-3-sonnet")
     /\ cfg.Provider = <<>>
     /\ NoKeyAndNoAnthropicAuth)
    => /\ res.err # NoErr
       /\ res.provider = NilProvider
       /\ Contains(res.err.arg, Lit("anthropic"))

----------------------------------------------------------------------------
(* Claims about the parser (SpecParse) *)

Parsed == pout # NoParse

\* t is s without its leading and trailing white space, said without
\* TrimSpace.
IsTrimOf(t, s) ==
    /\ \E a, b \in 0..Len(s) :
          /\ a + b <= Len(s)
          /\ t = SubSeq(s, a + 1, Len(s) - b)
          /\ \A i \in 1..a : s[i] \in WhiteSpace
          /\ \A i \in (Len(s) - b + 1)..Len(s) : s[i] \in WhiteSpace
    /\ t # <<>> => t[1] \notin WhiteSpace /\ t[Len(t)] \notin WhiteSpace

\* C10: ExtractProtocol always returns; with t the input without its
\* surrounding white space, if t holds a "/" the protocol is what precedes
\* the first "/" and the model id all that follows it, and otherwise the
\* protocol is "openai" and the model id is t.
C10_ExtractProtocolSplitsAtFirstSlash ==
    Parsed =>
        \E t \in StringsUpTo(Len(pin)) :
            /\ IsTrimOf(t, pin)
            /\ IF "/" \in Range(t)
               THEN /\ pout.protocol \o <<"/">> \o pout.modelID = t
                    /\ "/" \notin Range(pout.protocol)
               ELSE /\ pout.protocol = Lit("openai")
                    /\ pout.modelID = t

C10_Witness ==
    /\ Parsed
    /\ pin = <<" ", "a", "/", "/">>
    /\ pout.protocol = <<"a">>
    /\ pout.modelID = <<"/">>
----------------------------------------------------------------------------
(* Credential freshness and the credential store *)

MaxTime == 7

\* The refresh window, in minutes.
RefreshWindow == 5

\* The lifetimes an OAuth server gives a token, in minutes: never shorter
\* than the refresh window.
TokenLifetimes == {RefreshWindow}

\* The clock is read every ClockStep minutes: a token of the shortest
\* lifetime is seen fresh, then inside the window, then expired.
ClockStep == RefreshWindow - 2

\* AuthCredential.IsExpired
IsExpired(cred, t) == cred.ExpiresAt # 0 /\ t > cred.ExpiresAt

\* AuthCredential.NeedsRefresh: expiry minus now is below the window.
NeedsRefresh(cred, t) == cred.ExpiresAt # 0 /\ cred.ExpiresAt - t < RefreshWindow

Status_ExpiredOnly(cred, t) ==
    IF IsExpired(cred, t) THEN "expired" ELSE "active"

\* The status authStatusCmd prints for a credential.
Status(cred, t) ==
    IF IsExpired(cred, t) THEN "expired"
    ELSE IF NeedsRefresh(cred, t) THEN "needs refresh"
    ELSE "active"

\* auth.SetCredential: the entry of the family is replaced as a whole.
SetCredential(st, family, cred) ==
    [f \in DOMAIN st \cup {family} |-> IF f = family THEN cred ELSE st[f]]

\* auth.DeleteCredential
DeleteCredential(st, family) == [f \in DOMAIN st \ {family} |-> st[f]]

\* What a token endpoint answers: a new access token, a new refresh token
\* or none (0), and a lifetime (0 when the answer carries none).
TokenResponses(access, lifetimes) ==
    [access : {access}, refresh : {0, access}, expiresIn : lifetimes]

\* auth.RefreshAccessToken on success: the same family, the new access
\* token and expiry, the old refresh token when the answer has none, and
\* the account metadata carried over.
RefreshAccessToken(cred, resp, t) ==
    [cred EXCEPT !.AccessToken  = resp.access,
                 !.RefreshToken = IF resp.refresh = 0 THEN cred.RefreshToken
                                  ELSE resp.refresh,
                 !.ExpiresAt    = t + resp.expiresIn]

\* The credential a login flow builds from the token endpoint's answer.
LoginCredential(family, resp, method, account, t) ==
    Credential(family, resp.access, resp.refresh,
               IF resp.expiresIn = 0 THEN 0 ELSE t + resp.expiresIn,
               account, "", "", method)

----------------------------------------------------------------------------
(* What a step hands back.  res, report and outcome hold what the step    *)
(* just taken returned or printed; any other step leaves them empty.      *)

Returns(r)  == res' = r /\ report' = NoReport /\ outcome' = NoLocals

Prints(rep) == res' = NoRes /\ report' = rep /\ outcome' = NoLocals

Finishes(l) == res' = NoRes /\ report' = NoReport /\ outcome' = l

Silent      == res' = NoRes /\ report' = NoReport /\ outcome' = NoLocals

----------------------------------------------------------------------------
(* auth login, auth logout, auth status *)

SetAuthMethod(c, family, method) ==
    [c EXCEPT !.Providers[family].AuthMethod = method]

\* authLoginOpenAI after a login flow that succeeded; env.configOk is
\* whether loadConfig succeeds.
authLoginOpenAI(resp, account) ==
    /\ store' = SetCredential(store, "openai",
                    LoginCredential("openai", resp, "oauth", account, now))
    /\ cfg' = IF env.configOk THEN SetAuthMethod(cfg, "OpenAI", "oauth") ELSE cfg
    /\ deletedAll' = FALSE
    /\ Silent
    /\ UNCHANGED <<callVars, pin, pout, now, env, pc, op>>

\* authLoginPasteToken("anthropic"): a pasted token has neither refresh
\* token nor expiry.
authLoginPasteToken(token) ==
    /\ store' = SetCredential(store, "anthropic",
                    Credential("anthropic", token, 0, 0, "", "", "", "token"))
    /\ cfg' = IF env.configOk THEN SetAuthMethod(cfg, "Anthropic", "token") ELSE cfg
    /\ deletedAll' = FALSE
    /\ Silent
    /\ UNCHANGED <<callVars, pin, pout, now, env, pc, op>>

\* authLoginGoogleAntigravity after a browser login that succeeded; email
\* and project are what the two lookups returned ("" when one failed).
authLoginGoogleAntigravity(resp, email, project) ==
    /\ LET cred == [LoginCredential("google-antigravity", resp, "oauth", "", now)
                       EXCEPT !.Email = email, !.ProjectID = project]
       IN  store' = SetCredential(store, "google-antigravity", cred)
    /\ cfg' = IF ~env.configOk THEN cfg
              ELSE LET c1 == SetAuthMethod(cfg, "Antigravity", "oauth")
                       c2 == IF c1.Provider = <<>>
                             THEN [c1 EXCEPT !.Provider = Lit("antigravity")]
                             ELSE c1
                   IN  IF c2.Provider \in {Lit("antigravity"),
                                           Lit("google-antigravity")}
                       THEN [c2 EXCEPT !.Model = Lit("gemini-3-flash")]
                       ELSE c2
    /\ deletedAll' = FALSE
    /\ Silent
    /\ UNCHANGED <<callVars, pin, pout, now, env, pc, op>>

LogoutNames == {"openai", "anthropic", "google-antigravity", "antigravity"}

\* authLogoutCmd with --provider.
authLogoutProvider(provider) ==
    /\ store' = DeleteCredential(store, provider)
    /\ cfg' = IF ~env.configOk THEN cfg
              ELSE CASE provider = "openai" -> SetAuthMethod(cfg, "OpenAI", "")
                     [] provider = "anthropic" -> SetAuthMethod(cfg, "Anthropic", "")
                     [] provider \in {"google-antigravity", "antigravity"} ->
                            SetAuthMethod(cfg, "Antigravity", "")
                     [] OTHER -> cfg
    /\ deletedAll' = (deletedAll \/ DOMAIN store \subseteq {provider})
    /\ Silent
    /\ UNCHANGED <<callVars, pin, pout, now, env, pc, op>>

\* authLogoutCmd without --provider: auth.DeleteAllCredentials.
authLogoutAll ==
    /\ store' = EmptyStore
    /\ cfg' = IF ~env.configOk THEN cfg
              ELSE SetAuthMethod(SetAuthMethod(SetAuthMethod(cfg,
                       "OpenAI", ""), "Anthropic", ""), "Antigravity", "")
    /\ deletedAll' = TRUE
    /\ Silent
    /\ UNCHANGED <<callVars, pin, pout, now, env, pc, op>>

authStatusCmd_Prune ==
    /\ store' = [f \in {g \in DOMAIN store : ~IsExpired(store[g], now)} |-> store[f]]
    /\ Prints([f \in DOMAIN store |-> Status(store[f], now)])
    /\ UNCHANGED <<callVars, pin, pout, cfg, now, env, pc, op, deletedAll>>

\* authStatusCmd: the status of every stored credential.
authStatusCmd ==
    /\ Prints([f \in DOMAIN store |-> Status(store[f], now)])
    /\ UNCHANGED <<callVars, pin, pout, cfg, store, now, env, pc, op, deletedAll>>

----------------------------------------------------------------------------
(* auth models: load, refresh when due, write back, use *)

Antigravity == "google-antigravity"

\* The rest of authModelsCmd once cred is settled: the models are fetched
\* with cred's access token, unless cred has no project id.
ModelsUse(l) ==
    [l EXCEPT !.used = IF l.cred.ProjectID = "" THEN 0 ELSE l.cred.AccessToken,
              !.err  = IF l.cred.ProjectID = "" THEN "no project id" ELSE ""]

\* The command of process p ends with locals l.
Ends(p, l) ==
    /\ Finishes(l)
    /\ pc' = [pc EXCEPT ![p] = "idle"]
    /\ op' = [op EXCEPT ![p] = NoLocals]

ModelsLoad_NoTokenGuard(p) ==
    /\ pc[p] = "idle"
    /\ LET g == GetCredential(store, env, Antigravity)
       IN  IF g.err \/ ~g.found
           THEN Ends(p, [Locals("models", Antigravity, NoCredential)
                            EXCEPT !.err = "not logged in"])
           ELSE IF NeedsRefresh(g.cred, now)
           THEN /\ op' = [op EXCEPT ![p] = Locals("models", Antigravity, g.cred)]
                /\ pc' = [pc EXCEPT ![p] = "refresh"]
                /\ Silent
           ELSE Ends(p, ModelsUse(Locals("models", Antigravity, g.cred)))
    /\ UNCHANGED <<callVars, pin, pout, cfg, store, now, env, deletedAll>>

\* authModelsCmd up to the exchange: the credential is loaded; when a
\* refresh is due and a refresh token is there the exchange starts, and
\* otherwise the command goes on with what it loaded.
ModelsLoad(p) ==
    /\ pc[p] = "idle"
    /\ LET g == GetCredential(store, env, Antigravity)
       IN  IF g.err \/ ~g.found
           THEN Ends(p, [Locals("models", Antigravity, NoCredential)
                            EXCEPT !.err = "not logged in"])
           ELSE IF NeedsRefresh(g.cred, now) /\ g.cred.RefreshToken # 0
           THEN /\ op' = [op EXCEPT ![p] = Locals("models", Antigravity, g.cred)]
                /\ pc' = [pc EXCEPT ![p] = "refresh"]
                /\ Silent
           ELSE Ends(p, ModelsUse(Locals("models", Antigravity, g.cred)))
    /\ UNCHANGED <<callVars, pin, pout, cfg, store, now, env, deletedAll>>

ModelsExchange_FailClears(p, ok, resp) ==
    /\ pc[p] = "refresh"
    /\ op[p].kind = "models"
    /\ Ends(p, ModelsUse([op[p] EXCEPT !.refreshErr = TRUE, !.cred = NoCredential]))
    /\ UNCHANGED <<callVars, pin, pout, cfg, store, now, env, deletedAll>>

\* auth.RefreshAccessToken returns: on success the refreshed credential is
\* kept for the write; on failure cred stays as loaded and the command
\* goes on with it.
ModelsExchange(p, ok, resp) ==
    /\ pc[p] = "refresh"
    /\ op[p].kind = "models"
    /\ IF ok
       THEN /\ op' = [op EXCEPT ![p].refreshed =
                                    RefreshAccessToken(op[p].cred, resp, now),
                                ![p].omitted = (resp.refresh = 0)]
            /\ pc' = [pc EXCEPT ![p] = "write"]
            /\ Silent
       ELSE Ends(p, ModelsUse([op[p] EXCEPT !.refreshErr = TRUE]))
    /\ UNCHANGED <<callVars, pin, pout, cfg, store, now, env, deletedAll>>

ModelsWrite_Merge(p, saved) ==
    /\ pc[p] = "write"
    /\ op[p].kind = "models"
    /\ store' = IF saved /\ Antigravity \in DOMAIN store
                THEN SetCredential(store, Antigravity,
                         [store[Antigravity] EXCEPT
                             !.AccessToken = op[p].refreshed.AccessToken])
                ELSE store
    /\ Ends(p, ModelsUse([op[p] EXCEPT !.cred = op[p].refreshed]))
    /\ UNCHANGED <<callVars, pin, pout, cfg, now, env, deletedAll>>

\* cred = refreshed; _ = auth.SetCredential("google-antigravity", cred),
\* and the command goes on with cred.  saved is whether the store took the
\* write, which the command does not look at.
ModelsWrite(p, saved) ==
    /\ pc[p] = "write"
    /\ op[p].kind = "models"
    /\ store' = IF saved THEN SetCredential(store, Antigravity, op[p].refreshed)
                ELSE store
    /\ Ends(p, ModelsUse([op[p] EXCEPT !.cred = op[p].refreshed]))
    /\ UNCHANGED <<callVars, pin, pout, cfg, now, env, deletedAll>>

----------------------------------------------------------------------------
(* getUsableCredential(family) *)

LoginHint == "not authenticated: run picoclaw auth login --provider <family>"

\* Steps 1 and 2: load, fail when absent, decide whether to refresh.
UsableLoad(p, family) ==
    /\ pc[p] = "idle"
    /\ IF family \notin DOMAIN store
       THEN Ends(p, [Locals("usable", family, NoCredential)
                        EXCEPT !.err = LoginHint])
       ELSE IF NeedsRefresh(store[family], now) /\ store[family].RefreshToken # 0
       THEN /\ op' = [op EXCEPT ![p] = Locals("usable", family, store[family])]
            /\ pc' = [pc EXCEPT ![p] = "refresh"]
            /\ Silent
       ELSE Ends(p, [Locals("usable", family, store[family])
                        EXCEPT !.used = store[family].AccessToken])
    /\ UNCHANGED <<callVars, pin, pout, cfg, store, now, env, deletedAll>>

\* Step 3, the exchange: a failure returns the credential as loaded.
UsableExchange(p, ok, resp) ==
    /\ pc[p] = "refresh"
    /\ op[p].kind = "usable"
    /\ IF ok
       THEN /\ op' = [op EXCEPT ![p].refreshed =
                                    RefreshAccessToken(op[p].cred, resp, now),
                                ![p].omitted = (resp.refresh = 0)]
            /\ pc' = [pc EXCEPT ![p] = "write"]
            /\ Silent
       ELSE Ends(p, [op[p] EXCEPT !.refreshErr = TRUE,
                                  !.used = op[p].cred.AccessToken])
    /\ UNCHANGED <<callVars, pin, pout, cfg, store, now, env, deletedAll>>

\* Step 3, the write: the replacement is persisted and returned.
UsableWrite(p) ==
    /\ pc[p] = "write"
    /\ op[p].kind = "usable"
    /\ store' = SetCredential(store, op[p].family, op[p].refreshed)
    /\ Ends(p, [op[p] EXCEPT !.cred = op[p].refreshed,
                             !.used = op[p].refreshed.AccessToken])
    /\ UNCHANGED <<callVars, pin, pout, cfg, now, env, deletedAll>>

----------------------------------------------------------------------------
(* The credential lifecycle: commands, resolutions and the clock *)

\* A minute passes.  Logins, exchanges and the commands around them run
\* under short timeouts, far shorter than a minute: the clock moves
\* between commands.
Tick ==
    /\ \A p \in Procs : pc[p] = "idle"
    /\ now + ClockStep <= MaxTime
    /\ now' = now + ClockStep
    /\ Silent
    /\ UNCHANGED <<callVars, pin, pout, cfg, store, env, pc, op, deletedAll>>

\* A resolution on the configuration and the store as they are.
ResolveNow ==
    /\ Returns(CreateProvider(cfg, store, env))
    /\ UNCHANGED <<callVars, pin, pout, cfg, store, now, env, pc, op, deletedAll>>

\* The configurations a lifecycle starts from: OpenAI marked oauth and
\* Anthropic marked token, and one of the two named as the provider.
AuthProviders ==
    Providers(("OpenAI" :> Endpoint("", <<>>, "", "oauth", "")) @@
              ("Anthropic" :> Endpoint("", <<>>, "", "token", "")))

\* The user holds one OAuth account, with OpenAI or with Google, and may
\* paste an Anthropic token besides; the configuration names OpenAI or
\* Anthropic as the provider.
AuthStarts ==
    { <<Config(Lit("openai"), Lit("gpt-4o"), <<>>, AuthProviders), "openai">>,
      <<Config(Lit("anthropic"), Lit("claude-3-sonnet"), <<>>, AuthProviders),
        "google-antigravity">> }

Init ==
    /\ pin = <<>>
    /\ pout = NoParse
    /\ \E s \in AuthStarts, ok \in BOOLEAN :
            /\ cfg = s[1]
            /\ env = [AllOk EXCEPT !.configOk = ok, !.oauth = s[2]]
    /\ store = EmptyStore
    /\ now = 1
    /\ res = NoRes
    /\ AuthIdle
    /\ NoCalls

\* What the token endpoint answers to a login: token 1, with a lifetime
\* and with or without a refresh token, or with neither.
LoginResponses ==
    { r \in TokenResponses(1, TokenLifetimes \cup {0}) :
        r.expiresIn = 0 => r.refresh = 0 }

\* What it answers to a refresh exchange of process p: a token that no
\* login and no other process was given.
RefreshResponses(p) ==
    TokenResponses(IF p = "p1" THEN 2 ELSE 3, TokenLifetimes)

LoginStep ==
    \/ /\ env.oauth = "openai"
       /\ \E resp \in LoginResponses : authLoginOpenAI(resp, "acct")
    \/ authLoginPasteToken(1)
    \/ /\ env.oauth = Antigravity
       /\ \E resp \in LoginResponses, project \in {"", "proj"} :
            authLoginGoogleAntigravity(resp, "me@example.com", project)

LogoutStep ==
    \/ \E provider \in LogoutNames : authLogoutProvider(provider)
    \/ authLogoutAll

ModelsStep ==
    \E p \in Procs :
        \/ ModelsLoad(p)
        \/ \E ok \in BOOLEAN, resp \in RefreshResponses(p) : ModelsExchange(p, ok, resp)
        \/ \E saved \in BOOLEAN : ModelsWrite(p, saved)

\* The families whose adapters ask getUsableCredential for a token.
UsableFamilies == {"openai", "anthropic"}

\* getUsableCredential calls come one at a time; auth models commands may
\* run side by side.
UsableStep ==
    \E p \in {"p1"} :
        \/ \E family \in UsableFamilies : UsableLoad(p, family)
        \/ \E ok \in BOOLEAN, resp \in RefreshResponses(p) : UsableExchange(p, ok, resp)
        \/ UsableWrite(p)

Next ==
    \/ Tick
    \/ LoginStep
    \/ LogoutStep
    \/ authStatusCmd
    \/ ModelsStep
    \/ UsableStep
    \/ ResolveNow

Spec == Init /\ [][Next]_vars

----------------------------------------------------------------------------
(* Claims about the credential lifecycle (Spec) *)

\* The step in which the exchange of process p fails and its command ends.
FailedExchange(p) ==
    pc[p] = "refresh" /\ pc'[p] = "idle" /\ outcome'.refreshErr

\* The step in which process p writes its refreshed credential back.
WriteBack(p) == pc[p] = "write" /\ pc'[p] = "idle"

\* C4: a refresh that fails leaves the store as it was, in every field of
\* every credential, and the command that tried it goes on with the
\* credential it had loaded: getUsableCredential returns that credential
\* without an error, and auth models fetches with its access token (or stops
\* at the project id check, which is not about the refresh).
C4_FailedRefreshKeepsCredential ==
    [][\A p \in Procs :
        FailedExchange(p) =>
            /\ store' = store
            /\ outcome'.cred = op[p].loaded
            /\ outcome'.err \in {"", "no project id"}
            /\ outcome'.err = "no project id" =>
                    (op[p].kind = "models" /\ op[p].loaded.ProjectID = "")
            /\ outcome'.err = "" =>
                    outcome'.used = op[p].loaded.AccessToken]_vars

\* An auth models command has ended after its exchange failed: it used the
\* access token of the credential the store still holds.
C4_Witness ==
    /\ outcome.kind = "models"
    /\ outcome.refreshErr
    /\ outcome.err = ""
    /\ Antigravity \in DOMAIN store
    /\ store[Antigravity] = outcome.cred
    /\ outcome.used = store[Antigravity].AccessToken

ExpiredForGood(st, f, t) ==
    /\ f \in DOMAIN st
    /\ st[f].ExpiresAt # 0
    /\ st[f].RefreshToken = 0
    /\ IsExpired(st[f], t)

\* C6: when the credential stored for a family has an expiry, has no refresh
\* token and has expired, the only step after which the family has a
\* credential that is not expired is a login that stores a new one.
C6_ExpiredWithoutRefreshTokenStaysExpired ==
    [][\A f \in StoreKeys :
        (/\ ExpiredForGood(store, f, now)
         /\ f \in DOMAIN store'
         /\ ~IsExpired(store'[f], now'))
        => (LoginStep /\ store'[f] # store[f])]_vars

\* An auth models command has run on an expired credential without a
\* refresh token: it did not refresh, and the credential is still there.
C6_Witness ==
    /\ ExpiredForGood(store, Antigravity, now)
    /\ outcome.kind = "models"
    /\ outcome.cred = store[Antigravity]
    /\ ~outcome.refreshErr
    /\ outcome.refreshed = NoCredential

\* C7: a family that has a credential keeps having one over every step that
\* is not a logout of that family or of all families.
C7_OnlyLogoutRemoves ==
    [][\A f \in StoreKeys :
        (f \in DOMAIN store /\ f \notin DOMAIN store')
        => (authLogoutAll \/ authLogoutProvider(f))]_vars

\* auth status has just reported a credential as expired, and the store
\* still holds it.
C7_Witness ==
    \E f \in DOMAIN report :
        /\ report[f] = "expired"
        /\ f \in DOMAIN store
        /\ IsExpired(store[f], now)

\* C8: the credential of a family changes only by a login or by the write of
\* a refresh, and a write leaves exactly the credential that its own
\* exchange made from what it had loaded: the store holds the whole
\* credential of the refresh written last, with no field of another one and
\* not the credential from before the refresh.
C8_LastRefreshWrittenWins ==
    [][\A f \in StoreKeys :
        (f \in DOMAIN store' /\ (f \notin DOMAIN store \/ store'[f] # store[f]))
        => \/ LoginStep
           \/ \E p \in Procs :
                /\ WriteBack(p)
                /\ op[p].family = f
                /\ op[p].refreshed # op[p].loaded
                /\ store'[f] = op[p].refreshed]_vars

\* Two auth models commands loaded the credential of the login and
\* refreshed it; the second has written its result and the first is about
\* to write its own.
C8_Witness ==
    /\ pc["p1"] = "write"
    /\ op["p1"].loaded.AccessToken = 1
    /\ Antigravity \in DOMAIN store
    /\ store[Antigravity].AccessToken = 3
    /\ store[Antigravity] # op["p1"].refreshed

\* A resolution has taken the path that builds the adapter from the stored
\* credential of OpenAI or Anthropic.
TookStoredCredentialPath ==
    /\ res # NoRes
    /\ res.step = "explicit"
    /\ \/ /\ res.family = "OpenAI"
          /\ cfg.Providers.OpenAI.AuthMethod \in {"oauth", "token"}
       \/ /\ res.family = "Anthropic"
          /\ cfg.Providers.Anthropic.AuthMethod \in {"oauth", "token"}

----------------------------------------------------------------------------
(* Specification of one Chat call on any of the enumerated inputs *)

MaxToolCalls == 2

ChatModels ==
    {Lit("groq/openai/gpt-oss-120b"), Lit("moonshot/kimi-k2.5"),
     Lit("ollama/qwen2.5:14b"), Lit("nvidia/glm-4.7"), Lit("qwen/qwen/a"),
     Lit("cerebras/groq/a"), Lit("groq/"), Lit("groq"), Lit("Groq/a"),
     Lit("groqx/a"), Lit("/groq/a"), Lit("openai/gpt-4o"), Lit("gpt-4o"),
     Lit("openai/o1"), Lit("glm-4.7"), <<>>}

ChatProviders ==
    {NewHTTPProvider("k", CustomBase, "proxy"),
     NewHTTPProvider("", <<"http://localhost:11434", "v1">>, ""),
     NewHTTPProvider("k", <<>>, "")}

ChatOptions == {Options(n, t) : n \in {0, 100}, t \in {"", "0.7"}}

ArgumentStrings == {"", "{}", "{\"q\":\"go\"}", "null", "[1]", "{\"q\":"}

WireFunctions ==
    {NilFunction, Function("search", "{}", "sig")} \cup
    {Function("search", a, "") : a \in ArgumentStrings}

\* The tool-call lists of at most n calls, each identified by its position.
WireToolCalls(n) ==
    UNION {{[i \in 1..k |-> WireToolCall(ToString(i), "function", fs[i])] :
                fs \in [1..k -> WireFunctions]} : k \in 0..n}

Bodies ==
    {Body(FALSE, <<>>, 0), Body(TRUE, <<>>, 0), Body(TRUE, <<>>, 7),
     Body(TRUE, <<Choice("hi", <<>>, "stop"), Choice("there", <<>>, "length")>>, 7)}
    \cup {Body(TRUE, <<Choice("", tcs, "tool_calls")>>, 7) :
            tcs \in WireToolCalls(MaxToolCalls)}

Statuses == {StatusOK, 201, 204, 302, 400, 500}

ChatCalls ==
    {ChatCall(p, m, 1, tools, o, r) :
        p \in ChatProviders, m \in ChatModels, tools \in {0, 1},
        o \in ChatOptions,
        r \in {NetworkFailure, Reply(StatusOK, Body(TRUE, <<>>, 0)),
               Reply(500, Body(FALSE, <<>>, 0))}}
    \cup {ChatCall(NewHTTPProvider("k", CustomBase, ""), Lit("gpt-4o"), 1, 0,
                   Options(0, ""), Reply(s, b)) :
            s \in Statuses, b \in Bodies}

InitChat ==
    /\ pin = <<>>
    /\ pout = NoParse
    /\ cfg = Config(<<>>, <<>>, <<>>, Providers(EmptyStore))
    /\ store = EmptyStore
    /\ now = 1
    /\ res = NoRes
    /\ env = AllOk
    /\ AuthIdle
    /\ migrated = NoList
    /\ chat \in ChatCalls

Complete ==
    /\ ~chat.made
    /\ chat' = Chat(chat)
    /\ UNCHANGED <<migrated, pin, pout, cfg, store, now, res, env, authVars>>

NextChat == Complete

SpecChat == InitChat /\ [][NextChat]_vars

\* The call reached the wire: the adapter has a base URL.
Sent == chat.made /\ chat.provider.apiBase # <<>>

\* C11: a model whose first segment is one of groq, moonshot, nvidia,
\* ollama, qwen, cerebras goes on the wire without that segment and its
\* "/", and with everything after it as it was: putting the prefix and the
\* separator back in front of the name sent gives the name requested.
C11_FamilyPrefixStripped ==
    Sent =>
        \A prefix \in StrippedPrefixes :
            HasPrefix(chat.model, prefix \o <<"/">>) =>
                prefix \o <<"/">> \o chat.sent.model = chat.model

C11_Witness ==
    /\ Sent
    /\ chat.model = Lit("groq/openai/gpt-oss-120b")
    /\ chat.sent.model = Lit("openai/gpt-oss-120b")

Answered == Sent /\ ~chat.reply.failed

\* C12: when the status of the answer is not 2xx the call returns no
\* result and an error that carries the status and the body as received,
\* and the body is not handed to the parser; and a body is handed to the
\* parser only under a 2xx status.
C12_Non2xxFailsUnparsed ==
    /\ (Answered /\ chat.reply.status \notin 200..299) =>
            /\ chat.resp = NilResponse
            /\ chat.err # NoErr
            /\ chat.err.arg = <<chat.reply.status, chat.reply.body>>
            /\ ~chat.parsed
    /\ (chat.made /\ chat.parsed) =>
            (Answered /\ chat.reply.status \in 200..299)

C12_Witness ==
    /\ Answered
    /\ chat.reply.status = 400
    /\ chat.reply.body.valid
    /\ chat.err.arg = <<400, chat.reply.body>>
    /\ ~chat.parsed

\* C13: a parsed answer that is a well-formed envelope with no choice
\* gives a result with empty content, no tool call and finish reason
\* "stop", and no error.
C13_EmptyChoicesIsStop ==
    (chat.made /\ chat.parsed /\ chat.reply.body.valid
        /\ chat.reply.body.choices = <<>>) =>
            /\ chat.err = NoErr
            /\ ~chat.resp.nil
            /\ chat.resp.Content = ""
            /\ chat.resp.ToolCalls = <<>>
            /\ chat.resp.FinishReason = "stop"

C13_Witness ==
    /\ chat.made /\ chat.parsed
    /\ chat.reply.body = Body(TRUE, <<>>, 7)
    /\ chat.resp.FinishReason = "stop"
    /\ chat.err = NoErr

\* The answer was parsed and has a first choice.
FirstChoice == chat.made /\ chat.parsed /\ chat.reply.body.valid
                /\ chat.reply.body.choices # <<>>

\* The result has one tool call per tool call of the first choice, in the
\* same order, each with the raw argument string, and there is no error.
ToolCallsKept ==
    /\ chat.err = NoErr
    /\ DOMAIN chat.resp.ToolCalls = DOMAIN chat.reply.body.choices[1].tool_calls
    /\ \A i \in DOMAIN chat.resp.ToolCalls :
            /\ chat.resp.ToolCalls[i].ID = chat.reply.body.choices[1].tool_calls[i].ID
            /\ chat.resp.ToolCalls[i].Function.Arguments =
                    chat.reply.body.choices[1].tool_calls[i].Function.Arguments

\* C14 as stated: tool calls are kept one for one and in order with their
\* raw argument string, and whenever that string is not a JSON object the
\* parsed arguments are exactly the field "raw" holding the string.
C14_UnparsedArgumentsBecomeRaw ==
    FirstChoice =>
        /\ ToolCallsKept
        /\ \A i \in DOMAIN chat.resp.ToolCalls :
                chat.resp.ToolCalls[i].Function.Arguments \notin DOMAIN JSONObjects
                    => chat.resp.ToolCalls[i].Arguments =
                            ("raw" :> chat.resp.ToolCalls[i].Function.Arguments)

\* C14 amended: tool calls are kept one for one and in order with their
\* raw argument string; a string that is a JSON object decodes to its
\* fields, an empty string (or a missing function object) and the JSON
\* null give no field at all, and every other string gives exactly the
\* field "raw" holding the string; the call succeeds in each case.
C14_FailedDecodeBecomesRaw ==
    FirstChoice =>
        /\ ToolCallsKept
        /\ \A i \in DOMAIN chat.resp.ToolCalls :
                chat.resp.ToolCalls[i].Arguments =
                    LET raw == chat.resp.ToolCalls[i].Function.Arguments
                    IN  IF raw \in DOMAIN JSONObjects THEN JSONObjects[raw]
                        ELSE IF raw \in {"", "null"} THEN EmptyArgs
                        ELSE "raw" :> raw

C14_Witness ==
    /\ FirstChoice
    /\ Len(chat.resp.ToolCalls) = 2
    /\ chat.resp.ToolCalls[1].Arguments = ("raw" :> "[1]")
    /\ chat.resp.ToolCalls[2].Arguments = ("q" :> "go")
    /\ chat.err = NoErr

----------------------------------------------------------------------------
(* Migration of the legacy per-family fields to a route table *)

\* A nil *Config.
NilConfig == [nil |-> TRUE]

\* ModelName and Model of the entry made for each family.
MigratedNames ==
    ("OpenAI" :> <<Lit("openai"), Lit("openai/gpt-4o")>>) @@
    ("Anthropic" :> <<Lit("anthropic"), Lit("anthropic/claude-3-sonnet")>>) @@
    ("OpenRouter" :> <<Lit("openrouter"), Lit("openrouter/auto")>>) @@
    ("Groq" :> <<Lit("groq"), Lit("groq/llama-3.1-70b-versatile")>>) @@
    ("Zhipu" :> <<Lit("zhipu"), Lit("openai/glm-4")>>) @@
    ("VLLM" :> <<Lit("vllm"), Lit("openai/auto")>>) @@
    ("Gemini" :> <<Lit("gemini"), Lit("openai/gemini-pro")>>) @@
    ("Nvidia" :> <<Lit("nvidia"), Lit("nvidia/meta/llama-3.1-8b-instruct")>>) @@
    ("Ollama" :> <<Lit("ollama"), Lit("ollama/llama3")>>) @@
    ("Moonshot" :> <<Lit("moonshot"), Lit("moonshot/kimi")>>) @@
    ("ShengSuanYun" :> <<Lit("shengsuanyun"), Lit("openai/auto")>>) @@
    ("DeepSeek" :> <<Lit("deepseek"), Lit("openai/deepseek-chat")>>) @@
    ("Cerebras" :> <<Lit("cerebras"), Lit("cerebras/llama-3.3-70b")>>) @@
    ("VolcEngine" :> <<Lit("volcengine"), Lit("openai/doubao-pro")>>) @@
    ("GitHubCopilot" :> <<Lit("github-copilot"), Lit("github-copilot/gpt-4o")>>) @@
    ("Antigravity" :> <<Lit("antigravity"), Lit("antigravity/gemini-2.0-flash")>>) @@
    ("Qwen" :> <<Lit("qwen"), Lit("qwen/qwen-max")>>)

IsSet_AuthCounts(f, p) ==
    p.APIKey # "" \/ p.APIBase # <<>> \/ p.AuthMethod # ""
        \/ (f = "GitHubCopilot" /\ p.ConnectMode # "")

\* The condition under which family f, with the fields p, gets an entry.
IsSet(f, p) ==
    CASE f = "GitHubCopilot" ->
            p.APIKey # "" \/ p.APIBase # <<>> \/ p.ConnectMode # ""
      [] f = "Antigravity" -> p.APIKey # "" \/ p.AuthMethod # ""
      [] OTHER -> p.APIKey # "" \/ p.APIBase # <<>>

\* The fields of p that the entry of family f takes over.
MigratedFields(f, p) ==
    CASE f \in {"OpenAI", "Anthropic"} ->
            Endpoint(p.APIKey, p.APIBase, p.Proxy, p.AuthMethod, "")
      [] f = "GitHubCopilot" -> Endpoint("", p.APIBase, "", "", p.ConnectMode)
      [] f = "Antigravity" -> Endpoint(p.APIKey, <<>>, "", p.AuthMethod, "")
      [] OTHER -> Endpoint(p.APIKey, p.APIBase, p.Proxy, "", "")

\* The appends from the i-th family on, result being the slice so far.
RECURSIVE AppendFrom(_, _, _)
AppendFrom(p, i, result) ==
    IF i > Len(Families) THEN result
    ELSE AppendFrom(p, i + 1,
            IF IsSet(Families[i], p[Families[i]])
            THEN Append(result,
                        Route(MigratedNames[Families[i]][1],
                              MigratedNames[Families[i]][2],
                              MigratedFields(Families[i], p[Families[i]])))
            ELSE result)

\* A nil slice is the empty sequence.
ConvertProvidersToModelList(c) ==
    IF c = NilConfig THEN <<>> ELSE AppendFrom(c.Providers, 1, <<>>)

MaxPopulated == 2

\* One way of filling in a family: a key, a base, a proxy, an auth-method
\* or a connect-mode alone, or all of them.
Fillings ==
    { Endpoint("k", <<>>, "", "", ""), Endpoint("", CustomBase, "", "", ""),
      Endpoint("", <<>>, "proxy", "", ""), Endpoint("", <<>>, "", "oauth", ""),
      Endpoint("", <<>>, "", "", "stdio"),
      Endpoint("k", CustomBase, "proxy", "oauth", "grpc") }

\* The legacy fields with at most MaxPopulated families filled in, or with
\* every family filled in the same way.
MigrationProfiles ==
    {Providers(S) :
        S \in UNION {[F -> Fillings] :
                        F \in {G \in SUBSET FamilySet :
                                    Cardinality(G) <= MaxPopulated}}}
    \cup {Providers([f \in FamilySet |-> e]) : e \in Fillings}
    \cup {Providers([f \in FamilySet |->
                        IF f = "Antigravity"
                        THEN Endpoint("", <<>>, "", "oauth", "")
                        ELSE Endpoint("k", <<>>, "", "", "")])}

InitMigrate ==
    /\ pin = <<>>
    /\ pout = NoParse
    /\ cfg \in {NilConfig} \cup
               {Config(<<>>, <<>>, <<>>, p) : p \in MigrationProfiles}
    /\ store = EmptyStore
    /\ now = 1
    /\ res = NoRes
    /\ env = AllOk
    /\ AuthIdle
    /\ chat = NoChat
    /\ migrated = NoList

Migrate ==
    /\ migrated = NoList
    /\ migrated' = ConvertProvidersToModelList(cfg)
    /\ UNCHANGED <<chat, pin, pout, cfg, store, now, res, env, authVars>>

NextMigrate == Migrate

SpecMigrate == InitMigrate /\ [][NextMigrate]_vars

\* Populated in the sense of the claim: a key or a base URL, for GitHub
\* Copilot a connect-mode as well, and for Antigravity a key or an
\* auth-method.
Populated(f) ==
    IF f = "Antigravity"
    THEN cfg.Providers[f].APIKey # "" \/ cfg.Providers[f].AuthMethod # ""
    ELSE \/ cfg.Providers[f].APIKey # ""
         \/ cfg.Providers[f].APIBase # <<>>
         \/ (f = "GitHubCopilot" /\ cfg.Providers[f].ConnectMode # "")

\* The families that are populated, in the fixed order.
PopulatedInOrder == SelectSeq(Families, Populated)

\* C15: a nil configuration gives nil; any other gives one entry for each
\* populated family and for no other, in the order of the families, so
\* that an auth-method alone gives OpenAI no entry, seventeen populated
\* families give seventeen entries and none gives none.
C15_OneEntryPerPopulatedFamily ==
    migrated # NoList =>
        IF cfg = NilConfig THEN migrated = <<>>
        ELSE /\ Len(migrated) = Len(PopulatedInOrder)
             /\ \A i \in DOMAIN migrated :
                    migrated[i].ModelName = MigratedNames[PopulatedInOrder[i]][1]
             /\ (\A f \in FamilySet : Populated(f)) => Len(migrated) = 17
             /\ (\A f \in FamilySet : ~Populated(f)) => migrated = <<>>
             /\ (cfg.Providers["OpenAI"].APIKey = ""
                    /\ cfg.Providers["OpenAI"].APIBase = <<>>) =>
                        \A i \in DOMAIN migrated :
                            migrated[i].ModelName # Lit("openai")

C15_Witness ==
    /\ migrated # NoList
    /\ cfg # NilConfig
    /\ cfg.Providers["OpenAI"].AuthMethod = "oauth"
    /\ cfg.Providers["OpenAI"].APIKey = ""
    /\ cfg.Providers["Qwen"].APIKey = "k"
    /\ Len(migrated) = 1
    /\ migrated[1].ModelName = Lit("qwen")

\* All seventeen families populated, Antigravity by its auth-method.
C15_WitnessAll ==
    /\ migrated # NoList
    /\ cfg # NilConfig
    /\ \A f \in FamilySet : Populated(f)
    /\ cfg.Providers["Antigravity"].APIKey = ""
    /\ Len(migrated) = 17

----------------------------------------------------------------------------
(* Claims about the legacy steps of the resolution *)

\* The family an explicit provider name stands for, "" when the name is
\* empty or stands for none of these.
NamedFamily ==
    LET providerName == ToLower(cfg.Provider)
    IN  CASE providerName \in {Lit("openai"), Lit("gpt")} -> "OpenAI"
          [] providerName \in {Lit("anthropic"), Lit("claude")} -> "Anthropic"
          [] providerName \in {Lit("zhipu"), Lit("glm")} -> "Zhipu"
          [] providerName \in {Lit("volcengine"), Lit("doubao")} -> "VolcEngine"
          [] providerName = Lit("groq") -> "Groq"
          [] providerName = Lit("vllm") -> "VLLM"
          [] providerName = Lit("deepseek") -> "DeepSeek"
          [] providerName = Lit("openrouter") -> "OpenRouter"
          [] OTHER -> ""

\* C16: with no route-table entry for the model and an explicit provider
\* name whose family has a key, a base URL or an auth-method, the result
\* comes from the explicit step and from that family's fields; the
\* model-name switch is not reached.
C16_ExplicitFamilyUsedWhenPopulated ==
    (/\ Resolved
     /\ MatchedRoute = 0
     /\ NamedFamily # ""
     /\ \/ cfg.Providers[NamedFamily].APIKey # ""
        \/ cfg.Providers[NamedFamily].APIBase # <<>>
        \/ cfg.Providers[NamedFamily].AuthMethod # "")
    => /\ res.step = "explicit"
       /\ res.family = NamedFamily

\* The families of the model-name heuristics, in the order of the switch.
HeuristicOrder ==
    <<"Moonshot", "OpenRouter", "Anthropic", "OpenAI", "Gemini", "Zhipu",
      "Groq", "Qwen", "Nvidia", "Cerebras", "Ollama", "VolcEngine">>

\* The pattern of family f's heuristic matches the requested model.
Matches(f) ==
    LET has(s) == Contains(ToLower(cfg.Model), Lit(s))
        pre(s) == HasPrefix(cfg.Model, Lit(s))
    IN  CASE f = "Moonshot" -> has("kimi") \/ has("moonshot") \/ pre("moonshot/")
          [] f = "OpenRouter" ->
                pre("openrouter/") \/ pre("anthropic/") \/ pre("openai/")
                    \/ pre("meta-llama/") \/ pre("deepseek/") \/ pre("google/")
          [] f = "Anthropic" -> has("claude") \/ pre("anthropic/")
          [] f = "OpenAI" -> has("gpt") \/ pre("openai/")
          [] f = "Gemini" -> has("gemini") \/ pre("google/")
          [] f = "Zhipu" -> has("glm") \/ has("zhipu") \/ has("zai")
          [] f = "Groq" -> has("groq") \/ pre("groq/")
          [] f = "Qwen" -> has("qwen") \/ pre("qwen/")
          [] f = "Nvidia" -> has("nvidia") \/ pre("nvidia/")
          [] f = "Cerebras" -> has("cerebras") \/ pre("cerebras/")
          [] f = "Ollama" -> has("ollama") \/ pre("ollama/")
          [] f = "VolcEngine" -> has("doubao") \/ has("volcengine")
          [] OTHER -> FALSE

\* Family f has a credential: a key or an auth-method.
Credentialed(f) ==
    cfg.Providers[f].APIKey # "" \/ cfg.Providers[f].AuthMethod # ""

\* The heuristics that match the model and have a credential.
Usable == SelectSeq(HeuristicOrder, LAMBDA f : Matches(f) /\ Credentialed(f))

\* The model-name step is reached: no route and no explicit provider.
HeuristicReached == Resolved /\ MatchedRoute = 0 /\ cfg.Provider = <<>>

\* C17: in the model-name step the family chosen is that of the first
\* heuristic, in the fixed order, whose pattern matches the model and
\* whose family has a credential; matching heuristics without a
\* credential are passed over.
C17_FirstCredentialedHeuristicWins ==
    (HeuristicReached /\ Usable # <<>>)
    => /\ res.family = Usable[1]
       /\ res.step = "heuristic"

\* C18: when no route, no explicit family and no heuristic matched, the
\* result is the OpenRouter adapter if OpenRouter has a key, and otherwise
\* an error that names the model and no adapter; never the adapter of
\* another family.
C18_FallbackIsOpenRouterOrError ==
    (HeuristicReached /\ Usable = <<>>)
    => IF cfg.Providers.OpenRouter.APIKey # ""
       THEN /\ res.err = NoErr
            /\ res.family = "OpenRouter"
            /\ res.provider.kind = "http"
            /\ res.provider.apiKey = cfg.Providers.OpenRouter.APIKey
       ELSE /\ res.err # NoErr
            /\ res.err.arg = cfg.Model
            /\ res.provider = NilProvider

\* The families served by the HTTP adapter alone.
HTTPFamilies ==
    {"OpenRouter", "Groq", "Zhipu", "VLLM", "Gemini", "Nvidia", "Ollama",
     "Moonshot", "ShengSuanYun", "DeepSeek", "Cerebras", "VolcEngine", "Qwen"}

\* A step matched an HTTP-compatible family: the route entry of the model,
\* or the legacy fields of the family the result is attributed to.
MatchedHTTP ==
    /\ Resolved
    /\ res.family \in HTTPFamilies
    /\ res.step \in {"route", "explicit", "heuristic", "vllm", "fallback"}

MatchedFields ==
    IF MatchedRoute # 0 THEN cfg.ModelList[MatchedRoute]
    ELSE cfg.Providers[res.family]

\* C19: whichever step matched an HTTP-compatible family, resolution
\* succeeds if the matched entry or family has a key or a base URL and
\* fails exactly when it has neither.
C19_KeyOrBaseSuffices ==
    MatchedHTTP =>
        (res.err = NoErr <=>
            (MatchedFields.APIKey # "" \/ MatchedFields.APIBase # <<>>))

\* C20: whichever step matched an HTTP-compatible family, the HTTP adapter
\* returned has the key, the base URL (when one is set) and the proxy of
\* the matched entry or family.
C20_AdapterBoundToKeyBaseProxy ==
    (MatchedHTTP /\ res.err = NoErr)
    => /\ res.provider.kind = "http"
       /\ res.provider.apiKey = MatchedFields.APIKey
       /\ MatchedFields.APIBase # <<>> =>
                res.provider.apiBase = TrimRightSlash(MatchedFields.APIBase)
       /\ res.provider.proxy = MatchedFields.Proxy

----------------------------------------------------------------------------
(* Claims about stored credentials and migration *)

\* A step matched the Anthropic family with auth-method oauth or token, and
\* the credential store can be read.
MatchedAnthropicAuth ==
    /\ Resolved
    /\ res.family = "Anthropic"
    /\ MatchedFields.AuthMethod \in {"oauth", "token"}
    /\ env.storeOk

\* C21: whichever step matched Anthropic with auth-method oauth or token,
\* the adapter is the one made of the stored anthropic credential, not of
\* the configured key, and without a stored credential the result is the
\* error that tells the caller to log in, and no adapter.
C21_AnthropicAuthUsesStoredCredential ==
    MatchedAnthropicAuth =>
        IF "anthropic" \in DOMAIN store
        THEN /\ res.err = NoErr
             /\ res.provider =
                    NewClaudeProviderWithTokenSource(store["anthropic"].AccessToken)
        ELSE /\ res.provider = NilProvider
             /\ res.err.text =
                    "no credentials for anthropic. Run: picoclaw auth login --provider anthropic"

----------------------------------------------------------------------------
(* Specification of auth login and auth logout alone, from a configuration *)
(* without auth-method tags and an empty credential store                  *)

InitAuth ==
    /\ pin = <<>>
    /\ pout = NoParse
    /\ \E s \in AuthStarts, ok \in BOOLEAN :
            /\ cfg = [s[1] EXCEPT !.Providers = Providers(EmptyStore)]
            /\ env = [AllOk EXCEPT !.configOk = ok, !.oauth = s[2]]
    /\ store = EmptyStore
    /\ now = 1
    /\ res = NoRes
    /\ AuthIdle
    /\ NoCalls

\* The commands run one after the other while the clock goes on.
NextAuth ==
    \/ Tick
    \/ LoginStep
    \/ LogoutStep

SpecAuth == InitAuth /\ [][NextAuth]_vars

\* The field of the configuration that holds the auth-method tag of the
\* family stored under each key of the credential store.
TagOf ==
    ("openai" :> "OpenAI") @@ ("anthropic" :> "Anthropic") @@
    ("google-antigravity" :> "Antigravity")

\* C22: after any sequence of logins and logouts, for each of openai,
\* anthropic and google-antigravity the auth-method tag of the
\* configuration is set exactly when the store holds a credential of that
\* family.
C22_AuthMethodIffStored ==
    \A f \in StoreKeys :
        cfg.Providers[TagOf[f]].AuthMethod # "" <=> f \in DOMAIN store

----------------------------------------------------------------------------
(* Migration against the legacy resolution (SpecMigrate) *)

\* The HTTP-compatible legacy families: the generic OpenAI wire and its
\* siblings.
MigratedHTTPFamilies == HTTPFamilies \cup {"OpenAI"}

\* Family f is populated with an API key and is resolved over HTTP (the
\* auth-methods of OpenAI lead to the Codex adapters instead).
KeyedHTTP(f) ==
    /\ migrated # NoList
    /\ cfg # NilConfig
    /\ cfg.Providers[f].APIKey # ""
    /\ f = "OpenAI" => cfg.Providers[f].AuthMethod = ""

\* The place of the entry made for family f in the migrated list, or 0.
EntryOf(f) ==
    LET hits == {i \in DOMAIN migrated :
                    migrated[i].ModelName = MigratedNames[f][1]}
    IN  IF hits = {} THEN 0 ELSE CHOOSE i \in hits : TRUE

\* What the entry made for family f resolves to.
ViaRoute(f) == CreateProviderFromConfig(migrated[EntryOf(f)], env)

\* What the legacy fields resolve to when family f is the explicit provider
\* and the model is the one its migrated entry names.
ViaLegacy(f) ==
    CreateProvider(Config(MigratedNames[f][1], MigratedNames[f][2], <<>>,
                          cfg.Providers),
                   store, env)

SameEndpoint(f, route, legacy) ==
    /\ EntryOf(f) # 0
    /\ route.err = NoErr
    /\ legacy.err = NoErr
    /\ route.provider.apiKey = legacy.provider.apiKey
    /\ route.provider.apiBase = legacy.provider.apiBase

\* C23: for every HTTP-compatible legacy family populated with an API key,
\* with or without a base URL, the entry that ConvertProvidersToModelList
\* makes for it resolves through CreateProviderFromConfig to an adapter
\* with the API key and the base URL of the adapter that CreateProvider
\* builds from the legacy fields when the family is the explicit provider.
C23_MigrationPreservesEndpoint ==
    \A f \in MigratedHTTPFamilies :
        KeyedHTTP(f) => SameEndpoint(f, ViaRoute(f), ViaLegacy(f))

====
